---- MODULE Spec2Model ----
(***************************************************************************)
(* A model of the tfexplorer workload API (pkg/workloads/reservation.go):  *)
(* workload submission, provision/delete signing, the node poll, and the   *)
(* node's result and teardown reports, over a document store holding the   *)
(* legacy reservations, the workload documents, the per-node queue, the    *)
(* capacity pool and the farm's public IP table.                           *)
(*                                                                         *)
(* Every handler is one action.  The packages the handlers call into       *)
(* (pkg/workloads/types, pkg/capacity, pkg/directory/types) are modelled   *)
(* from their documented behaviour; the handlers themselves are modelled   *)
(* from their source.                                                      *)
(***************************************************************************)
EXTENDS Integers, Sequences, FiniteSets, TLC

VARIABLES
    reservations,   \* legacy reservation documents, by id
    workloads,      \* workload documents, by id
    queue,          \* the queue collection: sequence of queued workload copies
    pool,           \* the capacity pools, by id: [cus, active]
    farmIP,         \* the farm's public IP table: address -> reservationId
    nextId,         \* the id counter shared by reservations and workloads
    cursor,         \* per node: the from value of its next poll
    seen,           \* per node: largest id received since it (re)started polling
    lastOp,         \* the last request served and its response
    inflight,       \* per client: the request it has in flight, between two
                    \* accesses of the store
    capacityReservations,   \* capacity reservation documents, in order of creation
    capacityPools,  \* the pool documents, by id: [owner, nodeIds]
    getter,         \* a call of a generated getter: its receiver, frames, outcome
    process,        \* the tfexplorer process: signal, server, background loops
    units           \* a conversion of resource units: its input and its result

\* what the workload handlers leave alone
sideVars == <<capacityReservations, capacityPools, getter, process, units>>

\* what the pool endpoint, the getters and the process leave alone
storeVars == <<reservations, workloads, queue, pool, farmIP, nextId, cursor, seen,
               inflight>>

vars == <<reservations, workloads, queue, pool, farmIP, nextId, cursor, seen,
          lastOp, inflight, capacityReservations, capacityPools, getter, process,
          units>>

-----------------------------------------------------------------------------
(* Bounds of the model *)

\* number of documents (legacy reservations and workloads) the store holds
MaxDocs == 2
\* the pool's active rate stays within -MaxActive .. MaxActive
MaxActive == 1
\* legacy workloads of one reservation a node reports on (sub index 1..MaxSub)
MaxSub == 1
\* number of workloads the large legacy reservation has on node N1
BigReservation == 200

(* Program constants *)

maxPageSize == 200
minCapacitySeconds == 120
lastestWorkloadVersion == 2

(* The population *)

Nodes == {"N1", "N2"}
\* the nodes that poll
Pollers == {"N1"}
\* the registered users
Tids == {7, 9}
\* the capacity pool of user 7: funded for one workload of one unit
FundedPool ==
    [id |-> 1, owner |-> 7, nodes |-> {"N1", "N2"}, cus |-> 1 * minCapacitySeconds]

\* the pools of the grid: user 7 owns two, user 9 one
Pools ==
    (FundedPool.id :> FundedPool)
        @@ (2 :> [FundedPool EXCEPT !.id = 2, !.nodes = {"N1"}])
        @@ (3 :> [FundedPool EXCEPT !.id = 3, !.owner = 9])
FarmAddresses == {"ip1"}

NextActions == {"Create", "Sign", "Pay", "Deploy", "Delete", "Deleted", "Invalid"}
ResultStates == {"OK", "Error", "Deleted"}

\* the submissions: node, workload type, address, provision signing request
Submissions ==
    { [nodeId |-> "N1", workloadType |-> "Volume", ipaddress |-> "", publicIP |-> 0,
       req |-> [signers |-> {7, 9}, quorumMin |-> 2]],
      [nodeId |-> "N1", workloadType |-> "PublicIP", ipaddress |-> "ip1",
       publicIP |-> 0, req |-> [signers |-> {}, quorumMin |-> 0]],
      [nodeId |-> "N2", workloadType |-> "Volume", ipaddress |-> "", publicIP |-> 0,
       req |-> [signers |-> {}, quorumMin |-> 0]] }

\* the clients that may have a request in flight
Clients == {"a", "b"}

-----------------------------------------------------------------------------
(* Helpers *)

Max(S) == CHOOSE x \in S : \A y \in S : y <= x
Min(S) == CHOOSE x \in S : \A y \in S : x <= y

SeqToSet(s) == { s[i] : i \in DOMAIN s }

RECURSIVE SumLen(_)
\* number of workloads in a page made of groups [id, n, ...]
SumLen(groups) ==
    IF groups = <<>> THEN 0 ELSE Head(groups).n + SumLen(Tail(groups))

-----------------------------------------------------------------------------
(* pkg/workloads/types: the state pipeline *)

\* the threshold of a signing request is met by the signatures pushed so far
checkSignatures(sigs, req) ==
    /\ req.signers \subseteq SeqToSet(sigs)
    /\ Cardinality(SeqToSet(sigs)) >= req.quorumMin

\* Pipeline.Next: the next action after applying the pipeline to a document
PipelineNext(doc) ==
    IF doc.nextAction \in {"Delete", "Deleted", "Invalid"} THEN doc.nextAction
    ELSE IF checkSignatures(doc.signaturesDelete, doc.signingRequestDelete)
        THEN "Delete"
    ELSE IF doc.nextAction \in {"Create", "Sign"}
        THEN IF checkSignatures(doc.signaturesProvision, doc.signingRequestProvision)
             THEN "Pay" ELSE "Sign"
    ELSE doc.nextAction

-----------------------------------------------------------------------------
(* pkg/capacity: the planner *)

\* cloud units a workload draws per second
Units(w) == 1

IsAllowed(w) ==
    /\ w.nodeId \in Pools[w.poolId].nodes
    /\ w.customerTid = Pools[w.poolId].owner

HasCapacity(w, minSeconds) ==
    LET rate == pool[w.poolId].active + Units(w)
    IN  rate <= 0 \/ pool[w.poolId].cus >= rate * minSeconds

AddUsedCapacity(p, w) == [p EXCEPT ![w.poolId].active = @ + Units(w)]

RemoveUsedCapacity(p, w) == [p EXCEPT ![w.poolId].active = @ - Units(w)]

\* the rates of every pool stay within the bound of the model
RatesBounded(p) == \A i \in DOMAIN p : p[i].active \in -MaxActive .. MaxActive

-----------------------------------------------------------------------------
(* pkg/workloads/types: the store *)

\* a queued copy of a workload (n workloads of one legacy reservation share a group)
QueueEntry(id, nodeId, n, nextAction) ==
    [id |-> id, nodeId |-> nodeId, n |-> n, nextAction |-> nextAction]

\* WorkloadPush: append copies to the queue collection
WorkloadPush(q, entries) == q \o entries

\* WorkloadPop: remove the queued copies of id
WorkloadPop(q, id) == SelectSeq(q, LAMBDA e : e.id # id)

WorkloadsLastID == nextId - 1

\* ReservationSetNextAction: update-by-id on the reservations collection
ReservationSetNextAction(res, id, action) ==
    IF id \in DOMAIN res THEN [res EXCEPT ![id].nextAction = action] ELSE res

\* WorkloadSetNextAction: update-by-id on the workloads collection
WorkloadSetNextAction(wls, id, action) ==
    IF id \in DOMAIN wls THEN [wls EXCEPT ![id].nextAction = action] ELSE wls

\* WorkloadResultPush: store the result on the workload document
WorkloadResultPush(wls, id, state) == [wls EXCEPT ![id].result = state]

\* ResultPush: store the result of one workload of a legacy reservation
ResultPush(res, id, sub, state) ==
    [res EXCEPT ![id].results = (sub :> state) @@ @]

\* WorkloadPushSignature / ReservationPushSignature: append a signature
PushSignature(docs, id, field, tid) ==
    IF field = "provision"
    THEN [docs EXCEPT ![id].signaturesProvision = Append(@, tid)]
    ELSE [docs EXCEPT ![id].signaturesDelete = Append(@, tid)]

\* Reservation.Workloads(nodeID): how many workloads the reservation has on a
\* node ("" selects every node)
Workloads(r, nodeId) ==
    IF nodeId = "" THEN r.count["N1"] + r.count["N2"] ELSE r.count[nodeId]

\* the node of the workload with sub index sub ("rid-sub") of a reservation
SubNode(r, sub) == IF sub <= r.count["N1"] THEN "N1" ELSE "N2"

\* Reservation.AllDeleted: every workload has a result in state Deleted
AllDeleted(r) ==
    /\ DOMAIN r.results = 1 .. Workloads(r, "")
    /\ \A s \in DOMAIN r.results : r.results[s] = "Deleted"

-----------------------------------------------------------------------------
(* pkg/directory/types: the farm's public IPs *)

\* FarmIPSwap: compare-and-swap of the reservationId of an address
FarmIPSwap(ips, addr, from, to) ==
    IF addr \in DOMAIN ips /\ ips[addr] = from THEN [ips EXCEPT ![addr] = to] ELSE ips

\* FarmIPRelease: set the address free if the workload holds it
FarmIPRelease(ips, addr, id) == FarmIPSwap(ips, addr, id, 0)

-----------------------------------------------------------------------------
(* The request log *)

NoOp ==
    [op |-> "none", id |-> 0, node |-> "", arg |-> "", status |-> 0, from |-> 0,
     page |-> <<>>, xLastId |-> 0]

\* the record of a request: what was asked and the response
Log(op, id, node, arg, status) ==
    [NoOp EXCEPT !.op = op, !.id = id, !.node = node, !.arg = arg, !.status = status]

\* a client with no request in flight
Idle == [op |-> "idle"]

-----------------------------------------------------------------------------
(* The initial store *)

DeleteRequest == [signers |-> {7}, quorumMin |-> 1]

\* a legacy reservation of one workload on N1, waiting for the signatures of 7 and 9
LegacySign ==
    [nextAction |-> "Sign",
     signingRequestProvision |-> [signers |-> {7, 9}, quorumMin |-> 2],
     signaturesProvision |-> <<>>,
     signingRequestDelete |-> DeleteRequest,
     signaturesDelete |-> <<>>,
     count |-> [n \in Nodes |-> IF n = "N1" THEN 1 ELSE 0],
     results |-> <<>>]

\* a deployed legacy reservation with many workloads on N1 and one on N2
LegacyDeploy ==
    [nextAction |-> "Deploy",
     signingRequestProvision |-> [signers |-> {7}, quorumMin |-> 1],
     signaturesProvision |-> <<7>>,
     signingRequestDelete |-> DeleteRequest,
     signaturesDelete |-> <<>>,
     count |-> [n \in Nodes |-> IF n = "N1" THEN BigReservation ELSE 1],
     results |-> <<>>]

\* a deployed legacy reservation of one workload on N1
LegacyOne ==
    [LegacyDeploy EXCEPT !.count = [n \in Nodes |-> IF n = "N1" THEN 1 ELSE 0]]

\* the legacy reservations a store may hold when the service starts
LegacyStores == { <<>>, <<LegacyOne>>, <<LegacySign, LegacyDeploy>> }

RECURSIVE SetToSeq(_)
\* the elements of a set as a list
SetToSeq(S) ==
    IF S = {} THEN <<>>
    ELSE LET x == CHOOSE y \in S : TRUE IN <<x>> \o SetToSeq(S \ {x})

\* the pool documents of the pools of the population
PoolDocs ==
    [p \in DOMAIN Pools |->
        [owner |-> Pools[p].owner, nodeIds |-> SetToSeq(Pools[p].nodes)]]

NoCall == [status |-> "none"]
NotStarted == [main |-> "none"]
NoConversion == [done |-> FALSE]

\* nothing but the workload endpoints is in use
SideIdle ==
    /\ capacityReservations = <<>>
    /\ capacityPools = PoolDocs
    /\ getter = NoCall
    /\ process = NotStarted
    /\ units = NoConversion

Init ==
    /\ SideIdle
    /\ reservations \in LegacyStores
    /\ workloads = <<>>
    /\ queue = <<>>
    /\ pool = [p \in {FundedPool.id} |-> [cus |-> Pools[p].cus, active |-> 0]]
    /\ farmIP = [a \in FarmAddresses |-> 0]
    /\ nextId = Len(reservations) + 1
    /\ cursor = [n \in Pollers |-> 0]
    /\ seen = [n \in Pollers |-> 0]
    /\ lastOp = NoOp
    /\ inflight = [c \in Clients |-> Idle]

-----------------------------------------------------------------------------
(* POST /reservations *)

\* the workload document as create builds it from the request body
NewWorkload(cust, node, poolId, wtype, addr, pubip, sreq) ==
    [nodeId |-> node,
     customerTid |-> cust,
     poolId |-> poolId,
     workloadType |-> wtype,
     ipaddress |-> addr,
     publicIP |-> pubip,
     nextAction |-> "Create",
     signingRequestProvision |-> sreq,
     signaturesProvision |-> <<>>,
     signingRequestDelete |-> [signers |-> {cust}, quorumMin |-> 1],
     signaturesDelete |-> <<>>,
     result |-> "",
     version |-> lastestWorkloadVersion]

\* setWorkloadDelete: mark a workload for deletion and queue it
\* (the state is written through ReservationSetNextAction)
setWorkloadDelete(res, q, id, w) ==
    [res |-> ReservationSetNextAction(res, id, "Delete"),
     q |-> WorkloadPush(q, <<QueueEntry(id, w.nodeId, 1, "Delete")>>)]

\* handlePublicIPReservation: the response status (0: bound) for the workload
\* id claiming its address
PublicIPStatus(w) ==
    LET swap == farmIP[w.ipaddress]
    IN  IF w.ipaddress \notin DOMAIN farmIP THEN 404
        ELSE IF swap # 0 /\ ~(/\ swap \in DOMAIN workloads
                              /\ workloads[swap].poolId = w.poolId
                              /\ workloads[swap].nextAction = "Deploy") THEN 409
        ELSE 0

\* WorkloadToDeploy: set the stored state to Deploy and queue the workload
WorkloadToDeploy(wls, q, id, w) ==
    [wls |-> WorkloadSetNextAction(wls, id, "Deploy"),
     q |-> WorkloadPush(q, <<QueueEntry(id, w.nodeId, 1, "Deploy")>>)]

\* create with the admission check left out
createAdmitted_Always(w) == TRUE

\* create's admission of the stored workload against its pool
createAdmitted(w) == HasCapacity(w, minCapacitySeconds)

\* create answering without scheduling the workload
createSchedule_Skip(wls, q, id, w) == [wls |-> wls, q |-> q]

\* create's last step: "immediately deploy the workload"
createSchedule(wls, q, id, w) == WorkloadToDeploy(wls, q, id, w)

\* the part of create that runs once the workload is stored: admission against
\* the pool, the public IP binding, and the scheduling
createStored(id, w) ==
    LET stored == (id :> w) @@ workloads
    IN  IF ~createAdmitted(w)
        THEN /\ workloads' = WorkloadSetNextAction(stored, id, "Invalid")
             /\ lastOp' = Log("create", id, "", "nocapacity", 402)
             /\ UNCHANGED <<reservations, queue, farmIP>>
        ELSE IF w.workloadType = "PublicIP" /\ PublicIPStatus(w) # 0
        THEN /\ workloads' = stored
             /\ lastOp' = Log("create", id, "", "publicip", PublicIPStatus(w))
             /\ UNCHANGED <<reservations, queue, farmIP>>
        ELSE IF w.workloadType = "PublicIP"
        THEN LET swap == farmIP[w.ipaddress]
                 del == IF swap = 0 THEN [res |-> reservations, q |-> queue]
                        ELSE setWorkloadDelete(reservations, queue, swap, workloads[swap])
                 dep == createSchedule(stored, del.q, id, w)
             IN  /\ reservations' = del.res
                 /\ farmIP' = FarmIPSwap(farmIP, w.ipaddress, swap, id)
                 /\ workloads' = dep.wls
                 /\ queue' = dep.q
                 /\ lastOp' = Log("create", id, "", "deployed", 201)
        ELSE LET dep == createSchedule(stored, queue, id, w)
             IN  /\ workloads' = dep.wls
                 /\ queue' = dep.q
                 /\ lastOp' = Log("create", id, "", "deployed", 201)
                 /\ UNCHANGED <<reservations, farmIP>>

\* checkPublicIPAvailablity: 0 when the PublicIP workload a Kubernetes or VM
\* workload names may be attached, else the status
checkPublicIPAvailablity(publicIP, userID) ==
    IF publicIP = 0 THEN 0
    ELSE IF ~( /\ publicIP \in DOMAIN workloads
               /\ workloads[publicIP].workloadType = "PublicIP"
               /\ workloads[publicIP].nextAction = "Deploy"
               /\ workloads[publicIP].customerTid = userID ) THEN 404
    ELSE IF \E w \in DOMAIN workloads :
                /\ workloads[w].customerTid = userID
                /\ workloads[w].nextAction = "Deploy"
                /\ workloads[w].publicIP = publicIP THEN 409
    ELSE 0

\* the checks of create that reject a request before anything is stored
\* (0: the request passes)
\* create without the planner's IsAllowed check
createRejected_AnyPool(reqUser, w, sigValid) ==
    IF w.customerTid # reqUser THEN 401
    ELSE IF ~sigValid THEN 400
    ELSE IF w.poolId \notin DOMAIN pool THEN 404
    ELSE IF w.workloadType \in {"Kubernetes", "VirtualMachine"}
        THEN checkPublicIPAvailablity(w.publicIP, reqUser)
    ELSE 0

createRejected(reqUser, w, sigValid) ==
    IF w.customerTid # reqUser THEN 401
    ELSE IF ~sigValid THEN 400
    ELSE IF w.poolId \notin DOMAIN pool THEN 404
    ELSE IF ~IsAllowed(w) THEN 403
    ELSE IF w.workloadType \in {"Kubernetes", "VirtualMachine"}
        THEN checkPublicIPAvailablity(w.publicIP, reqUser)
    ELSE 0

create(reqUser, cust, sigValid, node, poolId, wtype, addr, pubip, sreq) ==
    LET w == NewWorkload(cust, node, poolId, wtype, addr, pubip, sreq)
        rejected == createRejected(reqUser, w, sigValid)
    IN  IF rejected # 0
        THEN /\ lastOp' = Log("create", 0, "", "rejected", rejected)
             /\ UNCHANGED <<reservations, workloads, queue, pool, farmIP, nextId,
                            cursor, seen, inflight, sideVars>>
        ELSE /\ nextId <= MaxDocs
             /\ nextId' = nextId + 1
             /\ createStored(nextId, w)
             /\ UNCHANGED <<pool, cursor, seen, inflight, sideVars>>

\* who submits: the HTTP identity, the body's customer, whether the customer
\* signature verifies, and the pool named
Submitters ==
    { [reqUser |-> 7, cust |-> 7, sigValid |-> TRUE, poolId |-> FundedPool.id],
      [reqUser |-> 9, cust |-> 9, sigValid |-> TRUE, poolId |-> FundedPool.id] }

Submit ==
    \E c \in Submitters, s \in Submissions :
        create(c.reqUser, c.cust, c.sigValid, s.nodeId, c.poolId, s.workloadType,
               s.ipaddress, s.publicIP, s.req)

-----------------------------------------------------------------------------
(* GET /reservations/workloads/{node_id}?from=N *)

\* one entry of a page: n workloads of document id, as the node receives them
PageEntry(id, nodeId, n, nextAction, src) ==
    [id |-> id, nodeId |-> nodeId, n |-> n, nextAction |-> nextAction, src |-> src]

\* the poll handing out every document whatever its state
Dispatchable_Any(action) == TRUE

\* "only reservations that is in right status": IsAny(Deploy, Delete)
Dispatchable(action) == action \in {"Deploy", "Delete"}

RECURSIVE scanReservations(_, _, _)
\* the first loop of workloads: legacy reservations with id >= from on the node,
\* in id order, expanded to their workloads on the node
scanReservations(ids, nodeId, acc) ==
    IF ids = {} \/ SumLen(acc.page) >= maxPageSize THEN acc
    ELSE LET r == Min(ids)
             action == PipelineNext(reservations[r])
         IN  IF ~Dispatchable(action)
             THEN scanReservations(ids \ {r}, nodeId, acc)
             ELSE scanReservations(ids \ {r}, nodeId,
                    [acc EXCEPT
                       !.page = Append(@, PageEntry(r, nodeId,
                                   Workloads(reservations[r], nodeId), action,
                                   "reservation")),
                       !.lastID = r])

RECURSIVE scanWorkloads(_, _, _)
\* the second loop of workloads: workload documents with id >= lastID on the
\* node, in id order; a document the pipeline moves to Delete is written back
scanWorkloads(ids, nodeId, acc) ==
    IF ids = {} \/ SumLen(acc.page) >= maxPageSize THEN acc
    ELSE LET w == Min(ids)
             action == PipelineNext(workloads[w])
             acc1 == IF action = "Delete"
                     THEN [acc EXCEPT !.written = @ \cup {w}] ELSE acc
         IN  IF ~Dispatchable(action)
             THEN scanWorkloads(ids \ {w}, nodeId, acc1)
             ELSE scanWorkloads(ids \ {w}, nodeId,
                    [acc1 EXCEPT
                       !.page = Append(@, PageEntry(w, workloads[w].nodeId, 1, action,
                                                   "workload")),
                       !.lastID = w])

RECURSIVE queued_AnyNode(_, _, _)
\* queued without the filter on the node
queued_AnyNode(q, nodeId, limit) ==
    IF q = <<>> \/ limit <= 0 THEN <<>>
    ELSE LET e == Head(q)
         IN  <<PageEntry(e.id, e.nodeId, IF e.n <= limit THEN e.n ELSE limit,
                         e.nextAction, "queue")>>
             \o queued_AnyNode(Tail(q), nodeId, limit - e.n)

RECURSIVE queued(_, _, _)
\* queued: the copies queued for the node, in queue order, at most limit
queued(q, nodeId, limit) ==
    IF q = <<>> \/ limit <= 0 THEN <<>>
    ELSE LET e == Head(q)
         IN  IF e.nodeId # nodeId THEN queued(Tail(q), nodeId, limit)
             ELSE <<PageEntry(e.id, e.nodeId, IF e.n <= limit THEN e.n ELSE limit,
                              e.nextAction, "queue")>>
                  \o queued(Tail(q), nodeId, limit - e.n)

\* the queue loop taking the id of each copy as lastID, without comparing
queuedLastID_Last(entries, lastID) ==
    IF entries = <<>> THEN lastID ELSE entries[Len(entries)].id

\* the largest of lastID and the ids of the queued copies
queuedLastID(entries, lastID) ==
    Max({lastID} \cup { entries[i].id : i \in DOMAIN entries })

\* workloads: the page, the x-last-id header and the documents written back
workloadsPage(nodeId, from) ==
    LET a1 == scanReservations(
                  { r \in DOMAIN reservations :
                      r >= from /\ Workloads(reservations[r], nodeId) > 0 },
                  nodeId, [page |-> <<>>, lastID |-> from, written |-> {}])
        a2 == IF SumLen(a1.page) >= maxPageSize THEN a1
              ELSE scanWorkloads(
                  { w \in DOMAIN workloads :
                      w >= a1.lastID /\ workloads[w].nodeId = nodeId },
                  nodeId, a1)
        fromQueue == queued(queue, nodeId, maxPageSize)
        a3 == IF SumLen(a2.page) >= maxPageSize \/ a2.page # <<>> THEN a2
              ELSE [a2 EXCEPT !.page = fromQueue,
                              !.lastID = queuedLastID(fromQueue, a2.lastID)]
    IN  IF a3.page = <<>> THEN [a3 EXCEPT !.lastID = WorkloadsLastID] ELSE a3

RECURSIVE SetDeleted(_, _)
\* WorkloadSetNextAction(id, Delete) for each document of ids
SetDeleted(wls, ids) ==
    IF ids = {} THEN wls
    ELSE LET w == Min(ids)
         IN  SetDeleted(WorkloadSetNextAction(wls, w, "Delete"), ids \ {w})

PageIds(page) == { page[i].id : i \in DOMAIN page }

\* a node polls with its cursor and keeps the returned x-last-id as its next from
Poll(nodeId) ==
    \E r \in {workloadsPage(nodeId, cursor[nodeId])} :
        /\ workloads' = SetDeleted(workloads, r.written)
        /\ cursor' = [cursor EXCEPT ![nodeId] = r.lastID]
        /\ seen' = [seen EXCEPT ![nodeId] = Max({@} \cup PageIds(r.page))]
        /\ lastOp' = [Log("poll", 0, nodeId, "", 200) EXCEPT
                         !.from = cursor[nodeId], !.page = r.page,
                         !.xLastId = r.lastID]
        /\ UNCHANGED <<reservations, queue, pool, farmIP, nextId, inflight, sideVars>>

Polling == \E n \in Pollers : Poll(n)

-----------------------------------------------------------------------------
(* PUT /reservations/workloads/{gwid}/{node_id} *)

\* the workload "rid-sub" is one of reservation.Workloads(nodeID)
LegacyFound(r, sub, nodeId) ==
    sub <= Workloads(r, "") /\ SubNode(r, sub) = nodeId

\* setFarmIPFree: release the address of a PublicIP workload
setFarmIPFree(ips, id, w) == FarmIPRelease(ips, w.ipaddress, id)

\* newStyleWorkloadPutResult without the transition to Delete on an Error result
PutResultAction_Keep(w, state) == w.nextAction

\* the state newStyleWorkloadPutResult leaves for the workload on a result
PutResultAction(w, state) == IF state = "Error" THEN "Delete" ELSE w.nextAction

\* the pool after newStyleWorkloadPutResult's call to the planner
PutResultPool(w, state) ==
    IF state = "Error" THEN RemoveUsedCapacity(pool, w)
    ELSE IF state = "OK" THEN AddUsedCapacity(pool, w)
    ELSE pool

\* newStyleWorkloadPutResult leaving the address bound on an Error result
PutResultFarmIP_Keep(id, w, state) == farmIP

\* the farm table after newStyleWorkloadPutResult
PutResultFarmIP(id, w, state) ==
    IF state = "Error" /\ w.workloadType = "PublicIP"
    THEN setFarmIPFree(farmIP, id, w) ELSE farmIP

\* newStyleWorkloadPutResult leaving the queued copies in place
PutResultPop_Keep(q, id) == q

\* newStyleWorkloadPutResult taking the workload off the queue
PutResultPop(q, id) == WorkloadPop(q, id)

newStyleWorkloadPutResult(id, sub, nodeId, state, capOk) ==
    IF id \notin DOMAIN workloads \/ sub # 1
    THEN /\ lastOp' = Log("result", id, "", "", 404)
         /\ UNCHANGED <<reservations, workloads, queue, pool, farmIP>>
    ELSE LET w == workloads[id]
             pushed == WorkloadResultPush(workloads, id, state)
             log == Log("result", id, "", state, 201)
         IN  /\ queue' = PutResultPop(queue, id)
             /\ UNCHANGED reservations
             /\ IF state \in {"Error", "OK"} /\ ~capOk
                THEN /\ workloads' = pushed
                     /\ lastOp' = [log EXCEPT !.status = 500]
                     /\ UNCHANGED <<pool, farmIP>>
                ELSE /\ pool' = PutResultPool(w, state)
                     /\ RatesBounded(pool')
                     /\ workloads' =
                            WorkloadSetNextAction(pushed, id, PutResultAction(w, state))
                     /\ farmIP' = PutResultFarmIP(id, w, state)
                     /\ lastOp' = log

workloadPutResult(rid, sub, nodeId, state, verified, capOk) ==
    /\ UNCHANGED <<nextId, cursor, seen, inflight, sideVars>>
    /\ IF ~verified
       THEN /\ lastOp' = Log("result", rid, "", "", 401)
            /\ UNCHANGED <<reservations, workloads, queue, pool, farmIP>>
       ELSE IF rid \notin DOMAIN reservations
       THEN newStyleWorkloadPutResult(rid, sub, nodeId, state, capOk)
       ELSE IF ~LegacyFound(reservations[rid], sub, nodeId)
       THEN /\ lastOp' = Log("result", rid, "", "", 404)
            /\ UNCHANGED <<reservations, workloads, queue, pool, farmIP>>
       ELSE /\ reservations' = ResultPush(reservations, rid, sub, state)
            /\ queue' = WorkloadPop(queue, rid)
            /\ lastOp' = Log("result", rid, nodeId, state, 201)
            /\ UNCHANGED <<workloads, pool, farmIP>>

-----------------------------------------------------------------------------
(* DELETE /reservations/workloads/{gwid}/{node_id} *)

\* newStyleWorkloadPutDeleted pushing the result before it calls the planner
PutDeletedWorkloads_Early(id, capOk) ==
    IF ~capOk THEN WorkloadResultPush(workloads, id, "Deleted")
    ELSE WorkloadSetNextAction(WorkloadResultPush(workloads, id, "Deleted"),
                               id, "Deleted")

\* the workloads collection after newStyleWorkloadPutDeleted: the result and the
\* state are written only once RemoveUsedCapacity has succeeded
PutDeletedWorkloads(id, capOk) ==
    IF ~capOk THEN workloads
    ELSE WorkloadSetNextAction(WorkloadResultPush(workloads, id, "Deleted"),
                               id, "Deleted")

newStyleWorkloadPutDeleted(id, sub, nodeId, capOk) ==
    IF id \notin DOMAIN workloads \/ sub # 1
    THEN /\ lastOp' = Log("deleted", id, "", "", 404)
         /\ UNCHANGED <<reservations, workloads, queue, pool, farmIP>>
    ELSE LET w == workloads[id]
             log == Log("deleted", id, "", "", 200)
         IN  IF ~capOk
             THEN /\ lastOp' = [log EXCEPT !.status = 500]
                  /\ workloads' = PutDeletedWorkloads(id, capOk)
                  /\ UNCHANGED <<reservations, queue, pool, farmIP>>
             ELSE /\ pool' = RemoveUsedCapacity(pool, w)
                  /\ RatesBounded(pool')
                  /\ workloads' = PutDeletedWorkloads(id, capOk)
                  /\ queue' = WorkloadPop(queue, id)
                  /\ farmIP' = IF w.workloadType = "PublicIP"
                                THEN setFarmIPFree(farmIP, id, w) ELSE farmIP
                  /\ lastOp' = log
                  /\ UNCHANGED reservations

workloadPutDeleted(rid, sub, nodeId, capOk) ==
    /\ UNCHANGED <<nextId, cursor, seen, inflight, sideVars>>
    /\ IF rid \notin DOMAIN reservations
       THEN newStyleWorkloadPutDeleted(rid, sub, nodeId, capOk)
       ELSE IF ~LegacyFound(reservations[rid], sub, nodeId)
       THEN /\ lastOp' = Log("deleted", rid, "", "", 404)
            /\ UNCHANGED <<reservations, workloads, queue, pool, farmIP>>
       ELSE LET pushed == ResultPush(reservations, rid, sub, "Deleted")
            IN  /\ reservations' =
                       IF AllDeleted(pushed[rid])
                       THEN ReservationSetNextAction(pushed, rid, "Deleted")
                       ELSE pushed
                /\ queue' = WorkloadPop(queue, rid)
                /\ lastOp' = Log("deleted", rid, nodeId, "", 200)
                /\ UNCHANGED <<workloads, pool, farmIP>>

\* the reports of the nodes: a result whose signature verifies and a teardown,
\* the planner call succeeding or failing
Reporting ==
    \/ \E rid \in 1 .. MaxDocs, sub \in 1 .. MaxSub, n \in Nodes,
          state \in ResultStates, capOk \in BOOLEAN :
            workloadPutResult(rid, sub, n, state, TRUE, capOk)
    \/ \E rid \in 1 .. MaxDocs, sub \in 1 .. MaxSub, n \in Nodes,
          capOk \in BOOLEAN :
            workloadPutDeleted(rid, sub, n, capOk)

-----------------------------------------------------------------------------
(* POST /reservations/{res_id}/sign/provision and /sign/delete *)

\* userCanSign without the look at the signatures already pushed
userCanSign_Again(userTid, req, signatures) ==
    IF userTid \notin req.signers THEN 401 ELSE 0

\* userCanSign: 0 when the user may push a signature, else the status
userCanSign(userTid, req, signatures) ==
    IF userTid \notin req.signers THEN 401
    ELSE IF userTid \in SeqToSet(signatures) THEN 400
    ELSE 0

\* the queue copies of every workload of a legacy reservation
LegacyEntries(rid, r, action) ==
    SelectSeq(<<QueueEntry(rid, "N1", r.count["N1"], action),
                QueueEntry(rid, "N2", r.count["N2"], action)>>,
              LAMBDA e : e.n > 0)

newSignProvision(id, tid, sigValid) ==
    IF id \notin DOMAIN workloads
    THEN /\ lastOp' = Log("signProvision", id, "", "", 404)
         /\ UNCHANGED <<reservations, workloads, queue>>
    ELSE LET w == workloads[id]
             can == userCanSign(tid, w.signingRequestProvision, w.signaturesProvision)
             pushed == PushSignature(workloads, id, "provision", tid)
         IN  IF PipelineNext(w) # "Sign"
             THEN /\ lastOp' = Log("signProvision", id, "", "", 401)
                  /\ UNCHANGED <<reservations, workloads, queue>>
             ELSE IF can # 0
             THEN /\ lastOp' = Log("signProvision", id, "", "", can)
                  /\ UNCHANGED <<reservations, workloads, queue>>
             ELSE IF tid \notin Tids
             THEN /\ lastOp' = Log("signProvision", id, "", "", 404)
                  /\ UNCHANGED <<reservations, workloads, queue>>
             ELSE IF ~sigValid
             THEN /\ lastOp' = Log("signProvision", id, "", "", 401)
                  /\ UNCHANGED <<reservations, workloads, queue>>
             ELSE /\ workloads' = pushed
                  /\ queue' = IF PipelineNext(pushed[id]) = "Deploy"
                               THEN WorkloadPush(queue,
                                        <<QueueEntry(id, w.nodeId, 1, "Deploy")>>)
                               ELSE queue
                  /\ lastOp' = Log("signProvision", id, "", "", 201)
                  /\ UNCHANGED reservations

signProvision(rid, tid, sigValid) ==
    /\ UNCHANGED <<pool, farmIP, nextId, cursor, seen, inflight, sideVars>>
    /\ IF rid \notin DOMAIN reservations
       THEN newSignProvision(rid, tid, sigValid)
       ELSE LET r == reservations[rid]
                can == userCanSign(tid, r.signingRequestProvision, r.signaturesProvision)
                pushed == PushSignature(reservations, rid, "provision", tid)
            IN  IF PipelineNext(r) # "Sign"
                THEN /\ lastOp' = Log("signProvision", rid, "", "", 401)
                     /\ UNCHANGED <<reservations, workloads, queue>>
                ELSE IF can # 0
                THEN /\ lastOp' = Log("signProvision", rid, "", "", can)
                     /\ UNCHANGED <<reservations, workloads, queue>>
                ELSE IF tid \notin Tids
                THEN /\ lastOp' = Log("signProvision", rid, "", "", 404)
                     /\ UNCHANGED <<reservations, workloads, queue>>
                ELSE IF ~sigValid
                THEN /\ lastOp' = Log("signProvision", rid, "", "", 401)
                     /\ UNCHANGED <<reservations, workloads, queue>>
                ELSE /\ reservations' = pushed
                     /\ queue' = IF PipelineNext(pushed[rid]) = "Deploy"
                                  THEN WorkloadPush(queue,
                                           LegacyEntries(rid, r,
                                               PipelineNext(pushed[rid])))
                                  ELSE queue
                     /\ lastOp' = Log("signProvision", rid, "", "", 201)
                     /\ UNCHANGED workloads

signDelete(rid, tid, sigValid) ==
    /\ UNCHANGED <<workloads, pool, farmIP, nextId, cursor, seen, inflight, sideVars>>
    /\ IF rid \notin DOMAIN reservations
       THEN /\ lastOp' = Log("signDelete", rid, "", "", 500)
            /\ UNCHANGED <<reservations, queue>>
       ELSE LET doc == reservations[rid]
                can == userCanSign(tid, doc.signingRequestDelete, doc.signaturesDelete)
                pushed == PushSignature(reservations, rid, "delete", tid)
            IN  IF can # 0
                THEN /\ lastOp' = Log("signDelete", rid, "", "", can)
                     /\ UNCHANGED <<reservations, queue>>
                ELSE IF tid \notin Tids
                THEN /\ lastOp' = Log("signDelete", rid, "", "", 404)
                     /\ UNCHANGED <<reservations, queue>>
                ELSE IF ~sigValid
                THEN /\ lastOp' = Log("signDelete", rid, "", "", 401)
                     /\ UNCHANGED <<reservations, queue>>
                ELSE /\ reservations' = pushed
                     /\ queue' = IF PipelineNext(pushed[rid]) = "Delete"
                                  THEN WorkloadPush(queue,
                                           LegacyEntries(rid, doc, "Delete"))
                                  ELSE queue
                     /\ lastOp' = Log("signDelete", rid, "", "", 201)

\* the users push signatures that verify
Signing ==
    \/ \E rid \in 1 .. MaxDocs, tid \in Tids : signProvision(rid, tid, TRUE)
    \/ \E rid \in 1 .. MaxDocs, tid \in Tids : signDelete(rid, tid, TRUE)

Next == Submit \/ Polling \/ Reporting \/ Signing

Spec == Init /\ [][Next]_vars

-----------------------------------------------------------------------------
(* GET /reservations/{res_id} and GET /reservations/workloads/{gwid}: the     *)
(* response status; the handlers write nothing.                               *)

get(rid) == IF rid \in DOMAIN reservations THEN 200 ELSE 404

newWorkloadGet(rid, sub) ==
    IF rid \in DOMAIN workloads /\ sub = 1 THEN 200 ELSE 404

workloadGet(rid, sub) ==
    IF rid \notin DOMAIN reservations THEN newWorkloadGet(rid, sub)
    ELSE IF sub \in 1 .. Workloads(reservations[rid], "") THEN 200
    ELSE 404

-----------------------------------------------------------------------------
(* Concurrent requests: a handler's accesses of the store interleave with     *)
(* those of other requests.  Each handler below is cut in two between the     *)
(* documents it reads and the writes it bases on them.                        *)

\* documents the store holds at most when requests run concurrently
MaxRaceDocs == 4

\* a PublicIP workload of user 7 on N1, deployed by its POST and reported OK
DeployedIP ==
    [NewWorkload(7, "N1", FundedPool.id, "PublicIP", "ip1", 0,
                 [signers |-> {}, quorumMin |-> 0])
        EXCEPT !.nextAction = "Deploy", !.result = "OK"]

\* capacity-seconds of the pool when requests run concurrently: three workloads
\* of one unit fit
RaceFunds == 3 * minCapacitySeconds

\* the id of the deployed PublicIP workload: it was submitted after LegacySign
AttachedIP == Len(<<LegacySign>>) + 1

\* a virtual machine of user 7 on N1 that names the deployed PublicIP workload
RaceSubmissions ==
    { [nodeId |-> "N1", workloadType |-> "VirtualMachine", ipaddress |-> "",
       publicIP |-> AttachedIP, req |-> [signers |-> {}, quorumMin |-> 0]] }

\* the store when the concurrent requests arrive: a legacy reservation waiting
\* for signatures and the PublicIP workload its node has deployed
RaceInit ==
    /\ SideIdle
    /\ reservations = <<LegacySign>>
    /\ workloads = (AttachedIP :> DeployedIP)
    /\ queue = <<>>
    /\ pool = [p \in {FundedPool.id} |-> [cus |-> RaceFunds, active |-> 1]]
    /\ farmIP = [a \in FarmAddresses |-> AttachedIP]
    /\ nextId = AttachedIP + 1
    /\ cursor = [n \in Pollers |-> 0]
    /\ seen = [n \in Pollers |-> 0]
    /\ lastOp = NoOp
    /\ inflight = [c \in Clients |-> Idle]

\* the checks signProvision and signDelete make on the reservation they read
signChecked(kind, r, tid) ==
    IF kind = "provision" /\ PipelineNext(r) # "Sign" THEN 401
    ELSE IF kind = "provision"
        THEN userCanSign(tid, r.signingRequestProvision, r.signaturesProvision)
    ELSE userCanSign(tid, r.signingRequestDelete, r.signaturesDelete)

\* signProvision / signDelete up to the signature verification: the reservation
\* is read and the signer checked against the signatures it holds
signBegin(c, kind, rid, tid) ==
    /\ inflight[c].op = "idle"
    /\ rid \in DOMAIN reservations
    /\ LET can == signChecked(kind, reservations[rid], tid)
       IN  IF can # 0
           THEN /\ lastOp' = Log("sign", rid, "", kind, can)
                /\ UNCHANGED inflight
           ELSE /\ inflight' = [inflight EXCEPT ![c] =
                                   [op |-> "sign", kind |-> kind, id |-> rid,
                                    tid |-> tid]]
                /\ UNCHANGED lastOp
    /\ UNCHANGED <<reservations, workloads, queue, pool, farmIP, nextId, cursor,
                   seen, sideVars>>

\* signProvision / signDelete from the push of the signature on
signFinish(c) ==
    /\ inflight[c].op = "sign"
    /\ LET rid == inflight[c].id
           kind == inflight[c].kind
           pushed == PushSignature(reservations, rid, kind, inflight[c].tid)
           action == PipelineNext(pushed[rid])
           wanted == IF kind = "provision" THEN "Deploy" ELSE "Delete"
       IN  /\ reservations' = pushed
           /\ queue' = IF action = wanted
                        THEN WorkloadPush(queue,
                                 LegacyEntries(rid, pushed[rid], action))
                        ELSE queue
           /\ lastOp' = Log("sign", rid, "", kind, 201)
    /\ inflight' = [inflight EXCEPT ![c] = Idle]
    /\ UNCHANGED <<workloads, pool, farmIP, nextId, cursor, seen, sideVars>>

\* newStyleWorkloadPutResult up to WorkloadPop: the workload is read, the
\* result stored and the queued copies removed
resultBegin(c, id, state) ==
    /\ inflight[c].op = "idle"
    /\ id \in DOMAIN workloads
    /\ workloads' = WorkloadResultPush(workloads, id, state)
    /\ queue' = PutResultPop(queue, id)
    /\ inflight' = [inflight EXCEPT ![c] =
                       [op |-> "result", id |-> id, state |-> state,
                        w |-> workloads[id]]]
    /\ UNCHANGED <<reservations, pool, farmIP, nextId, cursor, seen, lastOp, sideVars>>

\* newStyleWorkloadPutResult from the planner call on: the pool, the state and
\* the farm table are written from the workload as it was read
resultFinish(c) ==
    /\ inflight[c].op = "result"
    /\ LET id == inflight[c].id
           w == inflight[c].w
           state == inflight[c].state
       IN  /\ pool' = PutResultPool(w, state)
           /\ RatesBounded(pool')
           /\ workloads' = IF state = "Error"
                            THEN WorkloadSetNextAction(workloads, id, "Delete")
                            ELSE workloads
           /\ farmIP' = PutResultFarmIP(id, w, state)
           /\ lastOp' = Log("result", id, "", state, 201)
    /\ inflight' = [inflight EXCEPT ![c] = Idle]
    /\ UNCHANGED <<reservations, queue, nextId, cursor, seen, sideVars>>

\* create up to checkPublicIPAvailablity: the request is validated against the
\* documents stored
createBegin(c, reqUser, s) ==
    /\ inflight[c].op = "idle"
    /\ LET w == NewWorkload(reqUser, s.nodeId, FundedPool.id, s.workloadType,
                            s.ipaddress, s.publicIP, s.req)
           rejected == createRejected(reqUser, w, TRUE)
       IN  IF rejected # 0
           THEN /\ lastOp' = Log("create", 0, "", "rejected", rejected)
                /\ UNCHANGED inflight
           ELSE /\ inflight' = [inflight EXCEPT ![c] = [op |-> "create", w |-> w]]
                /\ UNCHANGED lastOp
    /\ UNCHANGED <<reservations, workloads, queue, pool, farmIP, nextId, cursor,
                   seen, sideVars>>

\* create from WorkloadCreate on: the workload is stored, admitted and deployed
createFinish(c) ==
    /\ inflight[c].op = "create"
    /\ nextId <= MaxRaceDocs
    /\ nextId' = nextId + 1
    /\ createStored(nextId, inflight[c].w)
    /\ inflight' = [inflight EXCEPT ![c] = Idle]
    /\ UNCHANGED <<pool, cursor, seen, sideVars>>

RaceSign ==
    \/ \E c \in Clients, kind \in {"provision", "delete"}, tid \in Tids :
            signBegin(c, kind, 1, tid)
    \/ \E c \in Clients : signFinish(c)

RaceResult ==
    \/ \E c \in Clients, id \in 1 .. MaxRaceDocs : resultBegin(c, id, "Error")
    \/ \E c \in Clients : resultFinish(c)

RaceCreate ==
    \/ \E c \in Clients, s \in RaceSubmissions : createBegin(c, FundedPool.owner, s)
    \/ \E c \in Clients : createFinish(c)

\* a node acknowledges a teardown while other requests are in flight
RaceTeardown ==
    \E id \in 1 .. MaxRaceDocs : workloadPutDeleted(id, 1, "N1", TRUE)

\* concurrent signature pushes
SpecSign == RaceInit /\ [][RaceSign]_vars

RaceNext == RaceResult \/ RaceCreate \/ RaceTeardown

\* concurrent submissions, results and teardowns
SpecRace == RaceInit /\ [][RaceNext]_vars

-----------------------------------------------------------------------------
(* Public IP reservations: several customers and pools claim the addresses    *)
(* of one farm.                                                                *)

\* documents the workloads collection may hold while addresses are claimed
MaxIPDocs == 2

\* who claims an address: user 7 through either of its pools, user 9 through
\* its own
IPSubmitters ==
    { [reqUser |-> 7, cust |-> 7, poolId |-> FundedPool.id],
      [reqUser |-> 7, cust |-> 7, poolId |-> 2],
      [reqUser |-> 9, cust |-> 9, poolId |-> 3] }

\* the PublicIP workloads submitted: an address of the farm of N1, and an
\* address the farm does not list
IPSubmissions ==
    { [nodeId |-> "N1", workloadType |-> "PublicIP", ipaddress |-> "ip1",
       publicIP |-> 0, req |-> [signers |-> {}, quorumMin |-> 0]],
      [nodeId |-> "N1", workloadType |-> "PublicIP", ipaddress |-> "ip0",
       publicIP |-> 0, req |-> [signers |-> {}, quorumMin |-> 0]] }

\* the store before any address is claimed: every pool funded, every address free
IPInit ==
    /\ SideIdle
    /\ reservations = <<>>
    /\ workloads = <<>>
    /\ queue = <<>>
    /\ pool = [p \in DOMAIN Pools |-> [cus |-> Pools[p].cus, active |-> 0]]
    /\ farmIP = [a \in FarmAddresses |-> 0]
    /\ nextId = 1
    /\ cursor = [n \in Pollers |-> 0]
    /\ seen = [n \in Pollers |-> 0]
    /\ lastOp = NoOp
    /\ inflight = [c \in Clients |-> Idle]

\* create for the PublicIP workload s submitted by c
claimIP(c, s) ==
    LET w == NewWorkload(c.cust, s.nodeId, c.poolId, s.workloadType, s.ipaddress,
                         s.publicIP, s.req)
        rejected == createRejected(c.reqUser, w, TRUE)
    IN  IF rejected # 0
        THEN /\ lastOp' = Log("create", 0, "", "rejected", rejected)
             /\ UNCHANGED <<reservations, workloads, queue, pool, farmIP, nextId,
                            cursor, seen, inflight, sideVars>>
        ELSE /\ nextId <= MaxIPDocs
             /\ nextId' = nextId + 1
             /\ createStored(nextId, w)
             /\ UNCHANGED <<pool, cursor, seen, inflight, sideVars>>

SubmitIP == \E c \in IPSubmitters, s \in IPSubmissions : claimIP(c, s)

\* the node of the farm reports on the workloads it was handed
IPReporting ==
    \/ \E id \in 1 .. MaxIPDocs, state \in {"OK", "Error"} :
            workloadPutResult(id, 1, "N1", state, TRUE, TRUE)
    \/ \E id \in 1 .. MaxIPDocs : workloadPutDeleted(id, 1, "N1", TRUE)

IPNext == SubmitIP \/ IPReporting

SpecIP == IPInit /\ [][IPNext]_vars

-----------------------------------------------------------------------------
(* Admission to a pool: submissions that name pools of other customers, pools  *)
(* that do not list the node, and pools that do not exist.                     *)

\* a pool id no pool has
NoPool == 4

\* who submits, and through which pool
AdmitSubmitters ==
    { [reqUser |-> 7, cust |-> 7, poolId |-> FundedPool.id],
      [reqUser |-> 7, cust |-> 7, poolId |-> 2],
      [reqUser |-> 9, cust |-> 9, poolId |-> FundedPool.id],
      [reqUser |-> 7, cust |-> 7, poolId |-> NoPool] }

\* the workloads submitted: a volume on either node
AdmitSubmissions ==
    { [nodeId |-> n, workloadType |-> "Volume", ipaddress |-> "", publicIP |-> 0,
       req |-> [signers |-> {}, quorumMin |-> 0]] : n \in Nodes }

SubmitAdmit == \E c \in AdmitSubmitters, s \in AdmitSubmissions : claimIP(c, s)

AdmitNext == SubmitAdmit \/ IPReporting

SpecAdmit == IPInit /\ [][AdmitNext]_vars

-----------------------------------------------------------------------------
(* Kubernetes workloads of custom size: create fills customSize from the       *)
(* resources the node has left.                                                *)

\* bits of ResourceAmount.Cru in the model (uint64 in the source; narrowed so
\* that the arithmetic stays within the integers of the model checker)
CruBits == 16

\* most cores a node of the model has or has reserved
MaxCru == 2

\* memory (GiB) a node of the model has, and the amounts it may have reserved
NodeMru == 4
ReservedMru == {0, NodeMru, 2 * NodeMru}

\* SRU of a custom size
CustomSRU == 50

\* directory.Node: TotalResources and ReservedResources of the target node
NodeResources ==
    { [total |-> [cru |-> tc, mru |-> NodeMru], reserved |-> [cru |-> rc, mru |-> rm]] :
        tc \in 0 .. MaxCru, rc \in 0 .. MaxCru, rm \in ReservedMru }

\* ResourceAmount.Diff on the fields getMaxNodeCapacity reads: Cru is unsigned
\* and wraps, Mru is a float
Diff(r, v) ==
    [cru |-> (r.cru - v.cru) % (2 ^ CruBits), mru |-> r.mru - v.mru]

\* the conversion int64(resources.Cru)
ToInt64(u) == IF u >= 2 ^ (CruBits - 1) THEN u - 2 ^ CruBits ELSE u

ZeroSize == [CRU |-> 0, MRU |-> 0, SRU |-> 0]

\* getMaxNodeCapacity: the status (0: fine) and the custom size of the node
getMaxNodeCapacity(node) ==
    LET resources == Diff(node.total, node.reserved)
    IN  IF resources.cru = 0 \/ resources.mru <= 0
        THEN [status |-> 409, size |-> ZeroSize]
        ELSE [status |-> 0,
              size |-> [CRU |-> ToInt64(resources.cru), MRU |-> resources.mru,
                        SRU |-> CustomSRU]]

\* handleKubernetesSize: the status and the customSize the workload is stored with
handleKubernetesSize(size, node) ==
    IF size = -1 THEN getMaxNodeCapacity(node)
    ELSE [status |-> 0, size |-> ZeroSize]

\* the Kubernetes workloads submitted: custom size or size 1, with or without
\* a customSize of the client's
K8SSubmissions ==
    { [nodeId |-> "N1", workloadType |-> "Kubernetes", ipaddress |-> "",
       publicIP |-> 0, req |-> [signers |-> {}, quorumMin |-> 0],
       size |-> sz, customSize |-> cs] :
        sz \in {-1, 1}, cs \in {ZeroSize, [CRU |-> 8, MRU |-> 16, SRU |-> 100]} }

\* create for the Kubernetes workload s submitted by c while the target node
\* has the resources node
createK8S(c, s, node) ==
    LET w == NewWorkload(c.cust, s.nodeId, c.poolId, s.workloadType, s.ipaddress,
                         s.publicIP, s.req)
        rejected == createRejected(c.reqUser, w, TRUE)
        sized == handleKubernetesSize(s.size, node)
    IN  IF rejected # 0 \/ sized.status # 0
        THEN /\ lastOp' = Log("create", 0, "", "rejected",
                              IF rejected # 0 THEN rejected ELSE sized.status)
             /\ UNCHANGED <<reservations, workloads, queue, pool, farmIP, nextId,
                            cursor, seen, inflight, sideVars>>
        ELSE /\ nextId <= MaxIPDocs
             /\ nextId' = nextId + 1
             /\ createStored(nextId,
                             w @@ [size |-> s.size, customSize |-> sized.size])
             /\ UNCHANGED <<pool, cursor, seen, inflight, sideVars>>

SubmitK8S ==
    \E c \in {x \in IPSubmitters : x.poolId = FundedPool.id},
       s \in K8SSubmissions, node \in NodeResources : createK8S(c, s, node)

K8SNext == SubmitK8S \/ IPReporting

SpecK8S == IPInit /\ [][K8SNext]_vars

-----------------------------------------------------------------------------
(* The request body of POST /reservations: the client may fill in the fields  *)
(* the server owns.                                                            *)

\* values a client may send in the fields create resets
BodyVersions == {1, lastestWorkloadVersion}
BodyIds == {0, 5}
BodySignatures == { <<>>, <<7>> }
BodyResults == {"", "OK"}
BodyActions == {"Create", "Deploy"}

\* the bodies: a volume of user 7 on N1 in its pool, with the client's values
Bodies ==
    { [NewWorkload(7, "N1", FundedPool.id, "Volume", "", 0,
                   [signers |-> {}, quorumMin |-> 0])
          EXCEPT !.version = v, !.signaturesProvision = sp, !.signaturesDelete = sd,
                 !.result = r, !.nextAction = a] @@ [id |-> i] :
        v \in BodyVersions, i \in BodyIds, sp \in BodySignatures,
        sd \in BodySignatures, r \in BodyResults, a \in BodyActions }

\* create keeping the version the client sent
FromBody_KeepVersion(body) ==
    [body EXCEPT !.signaturesProvision = <<>>, !.signaturesDelete = <<>>,
                 !.result = "", !.id = 0, !.nextAction = "Create"]

\* the workload create works on: the server's fields of the body are reset
\* and the next action is forced to Create
FromBody(body) ==
    [body EXCEPT !.signaturesProvision = <<>>, !.signaturesDelete = <<>>,
                 !.result = "", !.id = 0, !.version = lastestWorkloadVersion,
                 !.nextAction = "Create"]

\* WorkloadCreate: the document is stored under the id the server assigns
WorkloadCreate(wls, id, w) == (id :> [w EXCEPT !.id = id]) @@ wls

\* create up to the fetch of the workload it stored
postBegin(c, reqUser, body) ==
    /\ inflight[c].op = "idle"
    /\ LET w == FromBody(body)
           rejected == createRejected(reqUser, w, TRUE)
       IN  IF rejected # 0
           THEN /\ lastOp' = Log("create", 0, "", "rejected", rejected)
                /\ UNCHANGED <<workloads, nextId, inflight>>
           ELSE /\ nextId <= MaxIPDocs
                /\ workloads' = WorkloadCreate(workloads, nextId, w)
                /\ nextId' = nextId + 1
                /\ inflight' = [inflight EXCEPT ![c] = [op |-> "post", id |-> nextId]]
                /\ UNCHANGED lastOp
    /\ UNCHANGED <<reservations, queue, pool, farmIP, cursor, seen, sideVars>>

\* create from the capacity check on, for the workload it stored
postFinish(c) ==
    /\ inflight[c].op = "post"
    /\ createStored(inflight[c].id, workloads[inflight[c].id])
    /\ inflight' = [inflight EXCEPT ![c] = Idle]
    /\ UNCHANGED <<pool, nextId, cursor, seen, sideVars>>

PostBody ==
    \/ \E c \in Clients, u \in Tids, body \in Bodies : postBegin(c, u, body)
    \/ \E c \in Clients : postFinish(c)

BodyNext == PostBody \/ IPReporting

SpecBody == IPInit /\ [][BodyNext]_vars

-----------------------------------------------------------------------------
(* POST /reservations/pools: setupPool creates or extends a capacity pool.    *)

\* most capacity reservations stored
MaxPoolDocs == 2
\* longest node list and longest currency list of a request
MaxPoolNodes == 2
MaxCurrencies == 3

\* freeTFT currency code
freeTFT == "FreeTFT"
Currencies == {freeTFT, "TFT"}

\* the farm of every node of the grid: N3 stands in another farm
NodeFarm == [n \in Nodes \cup {"N3"} |-> IF n \in Nodes THEN 1 ELSE 2]
\* the nodes marked free to use
FreeToUse == {"N1"}

\* the elements of a list
Range(q) == { q[i] : i \in DOMAIN q }

\* the lists over S of length lo .. hi
Lists(S, lo, hi) == UNION { [1 .. n -> S] : n \in lo .. hi }

\* the seenNodes loop of setupPool: some node id occurs twice
DuplicateNodeID(nodeIDs) ==
    \E i, j \in DOMAIN nodeIDs : i < j /\ nodeIDs[i] = nodeIDs[j]

\* directory.FarmsForNodes: the farms the nodes belong to
FarmsForNodes(nodeIDs) == { NodeFarm[n] : n \in Range(nodeIDs) }

\* the node checks of setupPool, without the farm check
checkNodeIDs_AnyFarm(nodeIDs) ==
    IF DuplicateNodeID(nodeIDs) THEN 409
    ELSE 0

\* the node checks of setupPool: the status of the rejection, 0 when they pass
checkNodeIDs(nodeIDs) ==
    IF DuplicateNodeID(nodeIDs) THEN 409
    ELSE IF Cardinality(FarmsForNodes(nodeIDs)) > 1 THEN 400
    ELSE 0

\* isAllFreeToUse: as many free nodes among nodeIDs as nodeIDs is long
isAllFreeToUse(nodeIDs) ==
    Cardinality(Range(nodeIDs) \cap FreeToUse) >= Len(nodeIDs)

RECURSIVE filterFrom(_, _, _)
\* the range loop over currencies from index i (counted from 0): arr is the
\* backing array, which the loop ranges over in full, and len the length of
\* the slice currencies, which every removal shortens by one.
\* currencies[i+1:] panics once i+1 exceeds the length of the slice.
filterFrom(arr, len, i) ==
    IF i >= Len(arr) THEN [panic |-> FALSE, list |-> SubSeq(arr, 1, len)]
    ELSE IF arr[i + 1] # freeTFT THEN filterFrom(arr, len, i + 1)
    ELSE IF i + 1 > len THEN [panic |-> TRUE, list |-> <<>>]
    ELSE filterFrom([k \in DOMAIN arr |->
                        IF k > i /\ k < len THEN arr[k + 1] ELSE arr[k]],
                    len - 1, i + 1)

\* the currencies setupPool hands to Reserve
filterCurrencies(currencies, isAllFree) ==
    IF isAllFree THEN [panic |-> FALSE, list |-> currencies]
    ELSE filterFrom(currencies, Len(currencies), 0)

\* the bodies posted: who sends, the customer of the body, whether the customer
\* signature verifies, the pool extended (0: a new pool), nodes and currencies
PoolRequests ==
    [reqUser : Tids, customerTid : Tids, sigValid : BOOLEAN, poolId : {0, 2},
     nodeIds : {<<"N1">>, <<"N1", "N2">>, <<"N1", "N1">>, <<"N1", "N3">>},
     currencies : {<<"TFT">>}]

\* the bodies of one customer that differ in nodes and currencies
CurrencyRequests ==
    [reqUser : {7}, customerTid : {7}, sigValid : {TRUE}, poolId : {0},
     nodeIds : Lists(DOMAIN NodeFarm, 1, MaxPoolNodes),
     currencies : Lists(Currencies, 0, MaxCurrencies)]

\* capacitytypes.CapacityReservationCreate: the reservation stored under a new id
CapacityReservationCreate(docs, req) ==
    Append(docs, [id |-> Len(docs) + 1, customerTid |-> req.customerTid,
                  poolId |-> req.poolId, nodeIds |-> req.nodeIds])

\* capacityPlanner.Reserve on the pools: a new pool, or the extension of a
\* pool, which may not drop a node of the pool (the payment is taken as made)
Reserve(pools, req) ==
    IF req.poolId = 0
    THEN [err |-> "",
          pools |-> (Max(DOMAIN pools) + 1 :>
                        [owner |-> req.customerTid, nodeIds |-> req.nodeIds]) @@ pools]
    ELSE IF req.poolId \notin DOMAIN pools THEN [err |-> "notfound", pools |-> pools]
    ELSE IF ~(Range(pools[req.poolId].nodeIds) \subseteq Range(req.nodeIds))
    THEN [err |-> "ErrTransparantCapacityExtension", pools |-> pools]
    ELSE [err |-> "", pools |-> [pools EXCEPT ![req.poolId].nodeIds = req.nodeIds]]

\* the response of setupPool to the request and what it records; status 0 is
\* the handler dying of a runtime panic before it answers
poolAnswer(req, status, id, handed) ==
    /\ lastOp' = Log("setupPool", id, "", handed, status)
    /\ UNCHANGED <<storeVars, getter, process, units>>

setupPool(req) ==
    LET rejected == checkNodeIDs(req.nodeIds)
        filtered == filterCurrencies(req.currencies, isAllFreeToUse(req.nodeIds))
        stored == CapacityReservationCreate(capacityReservations, req)
        reserved == Reserve(capacityPools, req)
    IN  IF rejected # 0
        THEN poolAnswer(req, rejected, 0, <<>>)
             /\ UNCHANGED <<capacityReservations, capacityPools>>
        ELSE IF filtered.panic
        THEN poolAnswer(req, 0, 0, <<>>)
             /\ UNCHANGED <<capacityReservations, capacityPools>>
        ELSE IF ~req.sigValid
        THEN poolAnswer(req, 400, 0, <<>>)
             /\ UNCHANGED <<capacityReservations, capacityPools>>
        ELSE /\ Len(capacityReservations) < MaxPoolDocs
             /\ capacityReservations' = stored
             /\ capacityPools' = reserved.pools
             /\ poolAnswer(req, IF reserved.err = "" THEN 201
                                ELSE IF reserved.err = "ErrTransparantCapacityExtension"
                                THEN 400 ELSE 500,
                           Len(stored), filtered.list)

PostPool == \E req \in PoolRequests : setupPool(req)

\* POST /reservations by any user in the name of any customer
PostAs ==
    \E reqUser \in Tids, cust \in Tids, sigValid \in BOOLEAN :
        create(reqUser, cust, sigValid, "N1", IF cust = 7 THEN 1 ELSE 3, "Volume",
               "", 0, [signers |-> {}, quorumMin |-> 0])

PoolNext == PostPool \/ PostAs

SpecPool == IPInit /\ [][PoolNext]_vars

PostCurrencies == \E req \in CurrencyRequests : setupPool(req)

CurrencyNext == PostCurrencies

SpecCurrency == IPInit /\ [][CurrencyNext]_vars

-----------------------------------------------------------------------------
(* Volume.GetSigningRequestDelete: the getter sign/delete calls on a volume.    *)

\* frames the stack of a goroutine has room for
MaxStack == 8

\* the delete signing requests a stored volume may carry
SigningRequests == [signers : SUBSET Tids, quorumMin : 0 .. Cardinality(Tids)]

\* a caller calls the getter on the volume v
GetSigningRequestDeleteCall ==
    /\ getter = NoCall
    /\ \E v \in [SigningRequestDelete : SigningRequests] :
          getter' = [status |-> "running", v |-> v, depth |-> 1]
    /\ UNCHANGED <<storeVars, lastOp, capacityReservations, capacityPools, process, units>>

\* the body of the getter: `return v.GetSigningRequestDelete()`, one more call
\* of the getter on the same volume; the runtime ends the program when the
\* stack is full
GetSigningRequestDelete ==
    /\ getter.status = "running"
    /\ getter' = IF getter.depth < MaxStack
                 THEN [getter EXCEPT !.depth = @ + 1]
                 ELSE [status |-> "overflow", v |-> getter.v, depth |-> getter.depth]
    /\ UNCHANGED <<storeVars, lastOp, capacityReservations, capacityPools, process, units>>

GetterNext == GetSigningRequestDeleteCall \/ GetSigningRequestDelete

SpecGetter == IPInit /\ [][GetterNext]_vars

-----------------------------------------------------------------------------
(* The process: main, the signal goroutine, the HTTP server and the           *)
(* background loops started by createServer.                                   *)

\* seconds s.Shutdown waits for the requests in flight
ShutdownTimeout == 5
\* most requests in flight, and most steps counted for a loop
MaxInflight == 2
MaxLoopSteps == 2

\* the goroutines createServer starts
Loops == {"escrow.Run", "escrow.PaymentsLoop", "planner.Run"}

\* the context each loop is started with is context.Background(): its Done
\* channel is never closed, whatever signal the process receives
LoopContextDone(p, l) == FALSE

\* the process once createServer has returned and main serves
Serving ==
    [main |-> "serving", signal |-> "waiting", elapsed |-> 0, inflight |-> 0,
     aborted |-> 0,
     loop |-> [l \in Loops |-> [state |-> "running", steps |-> 0]]]

processStep(p) ==
    /\ process' = p
    /\ UNCHANGED <<storeVars, lastOp, capacityReservations, capacityPools, getter, units>>

\* main: createServer starts the loops, then ListenAndServe
StartProcess ==
    /\ process = NotStarted
    /\ processStep(Serving)

\* the server accepts a request while it listens
Accept ==
    /\ process.main = "serving"
    /\ process.signal = "waiting"
    /\ process.inflight < MaxInflight
    /\ processStep([process EXCEPT !.inflight = @ + 1])

\* a handler answers
Respond ==
    /\ process.main = "serving"
    /\ process.inflight > 0
    /\ processStep([process EXCEPT !.inflight = @ - 1])

\* SIGINT: the signal goroutine wakes, takes a context of five seconds and
\* calls s.Shutdown, which closes the listeners
Interrupt ==
    /\ process.main = "serving"
    /\ process.signal = "waiting"
    /\ processStep([process EXCEPT !.signal = "shutdown"])

\* a second passes while Shutdown waits for the requests in flight
ShutdownWait ==
    /\ process.main = "serving"
    /\ process.signal = "shutdown"
    /\ process.inflight > 0
    /\ process.elapsed < ShutdownTimeout
    /\ processStep([process EXCEPT !.elapsed = @ + 1])

\* Shutdown returns: no request in flight, or the five seconds are over
ShutdownReturn ==
    /\ process.main = "serving"
    /\ process.signal = "shutdown"
    /\ process.inflight = 0 \/ process.elapsed = ShutdownTimeout
    /\ processStep([process EXCEPT !.signal = "returned"])

\* ListenAndServe returns ErrServerClosed as soon as Shutdown has been called;
\* main logs and returns, which ends the process with every goroutine: the
\* requests still in flight are cut off
MainReturn ==
    /\ process.main = "serving"
    /\ process.signal \in {"shutdown", "returned"}
    /\ processStep([process EXCEPT !.main = "exited", !.aborted = process.inflight,
                                   !.inflight = 0])

\* one round of a background loop: it returns when its context is done, and
\* does its work otherwise
LoopStep(l) ==
    /\ process.main = "serving"
    /\ process.loop[l].state = "running"
    /\ IF LoopContextDone(process, l)
       THEN processStep([process EXCEPT !.loop[l].state = "cancelled"])
       ELSE /\ process.loop[l].steps < MaxLoopSteps
            /\ processStep([process EXCEPT !.loop[l].steps = @ + 1])

LoopSteps == \E l \in Loops : LoopStep(l)

ProcessNext ==
    \/ StartProcess
    \/ Accept
    \/ Respond
    \/ Interrupt
    \/ ShutdownWait
    \/ ShutdownReturn
    \/ MainReturn
    \/ LoopSteps

SpecProcess == IPInit /\ [][ProcessNext]_vars

-----------------------------------------------------------------------------
(* capacity.CloudUnitsFromResourceUnits: resource units to cloud units.        *)

\* most cores and most memory (GiB) of the resource units converted at large
MaxRsuCru == 8
MaxRsuMru == 16

\* cloud units are counted in thousandths, the precision of the expected values
CuScale == 1000

\* the cases of TestCloudUnitsFromResourceUnits that set CRU and MRU, and the
\* rsu of its storage cases, which has neither; cu in thousandths
CloudUnitTests_Linear ==
    { [rsu |-> [cru |-> 1, mru |-> 1], cu |-> 250],
      [rsu |-> [cru |-> 2, mru |-> 4], cu |-> 1000],
      [rsu |-> [cru |-> 4, mru |-> 8], cu |-> 2000],
      [rsu |-> [cru |-> 4, mru |-> 64], cu |-> 16000],
      [rsu |-> [cru |-> 4, mru |-> 32], cu |-> 8000],
      [rsu |-> [cru |-> 0, mru |-> 0], cu |-> 0] }

CloudUnitTests ==
    { [rsu |-> [cru |-> 1, mru |-> 1], cu |-> 250],
      [rsu |-> [cru |-> 2, mru |-> 4], cu |-> 1000],
      [rsu |-> [cru |-> 4, mru |-> 8], cu |-> 2000],
      [rsu |-> [cru |-> 4, mru |-> 64], cu |-> 2000],
      [rsu |-> [cru |-> 4, mru |-> 32], cu |-> 2000],
      [rsu |-> [cru |-> 0, mru |-> 0], cu |-> 0] }

\* the resource units converted: every small amount, and those of the tests
RSUs ==
    [cru : 0 .. MaxRsuCru, mru : 0 .. MaxRsuMru] \cup { tt.rsu : tt \in CloudUnitTests }

\* the cu of CloudUnitsFromResourceUnits, in thousandths
CloudUnitsFromResourceUnits(rsu) ==
    (Min({rsu.cru * 2, rsu.mru}) * CuScale) \div 4

\* a caller converts the resource units rsu
Convert ==
    /\ \E rsu \in RSUs :
          units' = [done |-> TRUE, rsu |-> rsu, cu |-> CloudUnitsFromResourceUnits(rsu),
                    want |-> -1]
    /\ UNCHANGED <<storeVars, lastOp, capacityReservations, capacityPools, getter, process>>

\* one case of the test: the conversion of tt.rsu, and the cu the case expects
TestCloudUnitsFromResourceUnits ==
    /\ \E tt \in CloudUnitTests :
          units' = [done |-> TRUE, rsu |-> tt.rsu,
                    cu |-> CloudUnitsFromResourceUnits(tt.rsu), want |-> tt.cu]
    /\ UNCHANGED <<storeVars, lastOp, capacityReservations, capacityPools, getter, process>>

UnitsNext == Convert \/ TestCloudUnitsFromResourceUnits

SpecUnits == IPInit /\ [][UnitsNext]_vars

-----------------------------------------------------------------------------
(* capacity.CloudUnitsFromResourceUnits: the storage units.                    *)

\* most SSD and most HDD (GiB) of the resource units converted at large
MaxRsuSru == 12
MaxRsuHru == 12

\* the storage cases of TestCloudUnitsFromResourceUnits with the su a case of
\* the test expects, had SSD counted one unit per 200 GiB; su in thousandths
StorageUnitTests_Per200 ==
    { [rsu |-> [sru |-> 120, hru |-> 1200], su |-> 1600],
      [rsu |-> [sru |-> 40, hru |-> 1000], su |-> 1033],
      [rsu |-> [sru |-> 1200, hru |-> 0], su |-> 6000],
      [rsu |-> [sru |-> 0, hru |-> 12000], su |-> 10000],
      [rsu |-> [sru |-> 0, hru |-> 0], su |-> 0] }

\* the storage cases of TestCloudUnitsFromResourceUnits, and the rsu of its
\* compute cases, which has no storage; su in thousandths
StorageUnitTests ==
    { [rsu |-> [sru |-> 120, hru |-> 1200], su |-> 1400],
      [rsu |-> [sru |-> 40, hru |-> 1000], su |-> 967],
      [rsu |-> [sru |-> 1200, hru |-> 0], su |-> 4000],
      [rsu |-> [sru |-> 0, hru |-> 12000], su |-> 10000],
      [rsu |-> [sru |-> 0, hru |-> 0], su |-> 0] }

\* the storage converted: every small amount, and those of the tests
StorageRSUs ==
    [sru : 0 .. MaxRsuSru, hru : 0 .. MaxRsuHru] \cup { tt.rsu : tt \in StorageUnitTests }

\* n / d rounded to the nearest whole number
RoundDiv(n, d) == (2 * n + d) \div (2 * d)

\* the su of CloudUnitsFromResourceUnits, in thousandths: HRU / 1200 plus
\* SRU / 300, the rates the expected values of the test follow, rounded to
\* three decimals
StorageUnitsFromResourceUnits(rsu) ==
    RoundDiv(CuScale * (rsu.hru + 4 * rsu.sru), 1200)

\* a caller converts the storage rsu
ConvertStorage ==
    /\ \E rsu \in StorageRSUs :
          units' = [done |-> TRUE, rsu |-> rsu,
                    su |-> StorageUnitsFromResourceUnits(rsu), want |-> -1]
    /\ UNCHANGED <<storeVars, lastOp, capacityReservations, capacityPools, getter, process>>

\* one storage case of the test: the conversion of tt.rsu and the su expected
TestStorageUnits ==
    /\ \E tt \in StorageUnitTests :
          units' = [done |-> TRUE, rsu |-> tt.rsu,
                    su |-> StorageUnitsFromResourceUnits(tt.rsu), want |-> tt.su]
    /\ UNCHANGED <<storeVars, lastOp, capacityReservations, capacityPools, getter, process>>

StorageNext == ConvertStorage \/ TestStorageUnits

SpecStorage == IPInit /\ [][StorageNext]_vars

-----------------------------------------------------------------------------
(* ContainerCapacity.GetRSU: the resource units of a container.               *)

\* most cores of a container of the model
MaxCpu == 4

\* MRU and SRU are counted in ten-thousandths, the precision GetRSU rounds to
RsuScale == 10000

\* the root disk GiB a container gets without being counted
FreeRootDisk == 50

\* memory and disk sizes (MiB) of the containers of the model: those of the
\* test, and disks at and beyond the free root disk
ContainerMemories == {0, 200, 512, 1024, 2048}
ContainerDisks == {256, 1024, 10000, 10240, 51200, 52224, 61440}

ContainerCapacities ==
    [Cpu : 1 .. MaxCpu, Memory : ContainerMemories, DiskSize : ContainerDisks,
     DiskType : {"HDD", "SSD"}]

NoRSU == [cru |-> -1, mru |-> -1, sru |-> -1, hru |-> -1]

\* the cases of TestContainer_GetRSU, had the first GiB of the root disk counted
ContainerTests_NoFreeDisk ==
    { [capcity |-> [Cpu |-> 1, Memory |-> 1024, DiskSize |-> 256, DiskType |-> "SSD"],
       rsu |-> [cru |-> 1, mru |-> 10000, sru |-> 2500, hru |-> 0]],
      [capcity |-> [Cpu |-> 1, Memory |-> 1024, DiskSize |-> 1024, DiskType |-> "SSD"],
       rsu |-> [cru |-> 1, mru |-> 10000, sru |-> 10000, hru |-> 0]],
      [capcity |-> [Cpu |-> 4, Memory |-> 2048, DiskSize |-> 10240, DiskType |-> "HDD"],
       rsu |-> [cru |-> 4, mru |-> 20000, sru |-> 0, hru |-> 0]],
      [capcity |-> [Cpu |-> 1, Memory |-> 200, DiskSize |-> 10000, DiskType |-> "HDD"],
       rsu |-> [cru |-> 1, mru |-> 1953, sru |-> 0, hru |-> 0]],
      [capcity |-> [Cpu |-> 1, Memory |-> 200, DiskSize |-> 52224, DiskType |-> "SSD"],
       rsu |-> [cru |-> 1, mru |-> 1953, sru |-> 510000, hru |-> 0]] }

\* the cases of TestContainer_GetRSU; MRU and SRU in ten-thousandths
ContainerTests ==
    { [capcity |-> [Cpu |-> 1, Memory |-> 1024, DiskSize |-> 256, DiskType |-> "SSD"],
       rsu |-> [cru |-> 1, mru |-> 10000, sru |-> 0, hru |-> 0]],
      [capcity |-> [Cpu |-> 1, Memory |-> 1024, DiskSize |-> 1024, DiskType |-> "SSD"],
       rsu |-> [cru |-> 1, mru |-> 10000, sru |-> 0, hru |-> 0]],
      [capcity |-> [Cpu |-> 4, Memory |-> 2048, DiskSize |-> 10240, DiskType |-> "HDD"],
       rsu |-> [cru |-> 4, mru |-> 20000, sru |-> 0, hru |-> 0]],
      [capcity |-> [Cpu |-> 1, Memory |-> 200, DiskSize |-> 10000, DiskType |-> "HDD"],
       rsu |-> [cru |-> 1, mru |-> 1953, sru |-> 0, hru |-> 0]],
      [capcity |-> [Cpu |-> 1, Memory |-> 200, DiskSize |-> 52224, DiskType |-> "SSD"],
       rsu |-> [cru |-> 1, mru |-> 1953, sru |-> 10000, hru |-> 0]] }

\* ContainerCapacity.GetRSU: the cores, the memory in GiB to four decimals,
\* and the GiB of an SSD root disk beyond the free ones
ContainerGetRSU(c) ==
    LET disk == RoundDiv(c.DiskSize * RsuScale, 1024)
        free == FreeRootDisk * RsuScale
    IN  [cru |-> c.Cpu,
         mru |-> RoundDiv(c.Memory * RsuScale, 1024),
         sru |-> IF c.DiskType = "SSD" /\ disk > free THEN disk - free ELSE 0,
         hru |-> 0]

\* a caller asks for the resource units of the container capacity c
ContainerRSU ==
    /\ \E c \in ContainerCapacities :
          units' = [done |-> TRUE, capcity |-> c, rsu |-> ContainerGetRSU(c),
                    want |-> NoRSU]
    /\ UNCHANGED <<storeVars, lastOp, capacityReservations, capacityPools, getter, process>>

\* one case of the test
TestContainer_GetRSU ==
    /\ \E tt \in ContainerTests :
          units' = [done |-> TRUE, capcity |-> tt.capcity,
                    rsu |-> ContainerGetRSU(tt.capcity), want |-> tt.rsu]
    /\ UNCHANGED <<storeVars, lastOp, capacityReservations, capacityPools, getter, process>>

ContainerNext == ContainerRSU \/ TestContainer_GetRSU

SpecContainer == IPInit /\ [][ContainerNext]_vars

-----------------------------------------------------------------------------
(* The nodes keep polling and reporting: the service under the fairness the   *)
(* clients give it.                                                            *)

\* the store the nodes serve: one legacy reservation waiting for signatures
\* and a deployed one
ServeInit ==
    /\ Init
    /\ reservations = <<LegacySign, LegacyDeploy>>

\* the node acknowledges an entry of the page it received last: a teardown
\* for an entry to delete, a result OK for an entry to deploy
Acknowledge(n) ==
    /\ lastOp.op = "poll"
    /\ lastOp.node = n
    /\ \E i \in DOMAIN lastOp.page :
          LET e == lastOp.page[i]
          IN  IF e.nextAction = "Delete"
              THEN workloadPutDeleted(e.id, 1, n, TRUE)
              ELSE workloadPutResult(e.id, 1, n, "OK", TRUE, TRUE)

Acknowledging == \E n \in Pollers : Acknowledge(n)

ServeNext == Signing \/ Polling \/ Acknowledging

\* the customers sign while the node keeps polling and acknowledging
SpecServe ==
    ServeInit /\ [][ServeNext]_vars /\ WF_vars(Polling) /\ WF_vars(Acknowledging)

-----------------------------------------------------------------------------
(* Provision signatures: every user, registered or not, posts signatures that *)
(* verify or not.                                                              *)

\* the tids that post signatures: the registered users and one that is not
Signatories == Tids \cup {8}

\* a legacy reservation that asks for the signatures of 7, 9 and of a tid the
\* phonebook does not know
LegacyGuest ==
    [LegacySign EXCEPT
        !.signingRequestProvision = [signers |-> {7, 8, 9}, quorumMin |-> 2]]

ProvisionInit ==
    /\ SideIdle
    /\ reservations = <<LegacyGuest>>
    /\ workloads = <<>>
    /\ queue = <<>>
    /\ pool = [p \in {FundedPool.id} |-> [cus |-> Pools[p].cus, active |-> 0]]
    /\ farmIP = [a \in FarmAddresses |-> 0]
    /\ nextId = Len(reservations) + 1
    /\ cursor = [n \in Pollers |-> 0]
    /\ seen = [n \in Pollers |-> 0]
    /\ lastOp = NoOp
    /\ inflight = [c \in Clients |-> Idle]

\* POST /reservations/{res_id}/sign/provision for any id, tid and signature
ProvisionSigning ==
    \E rid \in 1 .. MaxDocs + 1, tid \in Signatories, sigValid \in BOOLEAN :
        signProvision(rid, tid, sigValid)

\* POST /reservations/{res_id}/sign/delete by the customer
DeleteSigning == \E rid \in 1 .. MaxDocs, tid \in Tids : signDelete(rid, tid, TRUE)

ProvisionNext == Submit \/ ProvisionSigning \/ DeleteSigning

SpecProvision == ProvisionInit /\ [][ProvisionNext]_vars

-----------------------------------------------------------------------------
(* Gateway workloads: the bytes a customer signs.                             *)

\* longest Domain and Secret of a GatewayReverseProxy of the model
MaxStrLen == 2

\* largest Port and PortTLS of a GatewayProxy of the model
MaxPort == 11

\* the characters of the strings of a reverse proxy
Letters == {"a", "b"}

\* the challenge bytes of the reservation header the two workloads share
Headers == {<<"h">>}

\* fmt.Fprintf(b, "%d", n): the decimal digits of n
DecimalDigit(d) == <<"0", "1", "2", "3", "4", "5", "6", "7", "8", "9">>[d + 1]

RECURSIVE Decimal(_)
Decimal(n) ==
    IF n < 10 THEN <<DecimalDigit(n)>>
    ELSE Decimal(n \div 10) \o <<DecimalDigit(n % 10)>>

\* the payloads of a GatewayReverseProxy
ReverseProxies == [Domain : Lists(Letters, 0, MaxStrLen), Secret : Lists(Letters, 0, MaxStrLen)]

\* the payloads of a GatewayProxy
Proxies ==
    [Domain : Lists({"a"}, 0, 1), Addr : Lists({"a"}, 0, 1),
     Port : 0 .. MaxPort, PortTLS : 0 .. MaxPort]

\* GatewayReverseProxy.SignatureChallenge: the header bytes, the domain, the
\* secret
ReverseProxyChallenge(ric, p) == ric \o p.Domain \o p.Secret

\* GatewayProxy.SignatureChallenge: the header bytes, the domain, the address
\* and the two ports in decimal
ProxyChallenge(ric, p) ==
    ric \o p.Domain \o p.Addr \o Decimal(p.Port) \o Decimal(p.PortTLS)

\* the challenges of two reverse proxies with one header
ChallengeReverseProxies ==
    /\ ~units.done
    /\ \E ric \in Headers, p \in ReverseProxies, q \in ReverseProxies :
          units' = [done |-> TRUE, kind |-> "GatewayReverseProxy", p |-> p, q |-> q,
                    cp |-> ReverseProxyChallenge(ric, p),
                    cq |-> ReverseProxyChallenge(ric, q)]
    /\ UNCHANGED <<storeVars, lastOp, capacityReservations, capacityPools, getter, process>>

\* the challenges of two proxies with one header
ChallengeProxies ==
    /\ ~units.done
    /\ \E ric \in Headers, p \in Proxies, q \in Proxies :
          units' = [done |-> TRUE, kind |-> "GatewayProxy", p |-> p, q |-> q,
                    cp |-> ProxyChallenge(ric, p), cq |-> ProxyChallenge(ric, q)]
    /\ UNCHANGED <<storeVars, lastOp, capacityReservations, capacityPools, getter, process>>

ChallengeNext == ChallengeReverseProxies \/ ChallengeProxies

SpecChallenge == IPInit /\ [][ChallengeNext]_vars

-----------------------------------------------------------------------------
(* Properties *)

\* the provision threshold of a document is met
ProvisionSigned(doc) ==
    checkSignatures(doc.signaturesProvision, doc.signingRequestProvision)

\* the last request served is a poll
Polled == lastOp.op = "poll"

\* ids of a page in the order returned are ascending
Ascending(page) ==
    \A i, j \in DOMAIN page : i < j => page[i].id <= page[j].id

C2_NoCapacityInvalid ==
    [][ /\ ( /\ lastOp'.op = "create"
             /\ lastOp'.id # 0
             /\ ~HasCapacity(workloads'[lastOp'.id], minCapacitySeconds) )
           => /\ lastOp'.status = 402
              /\ lastOp'.id = nextId
              /\ workloads'[lastOp'.id].nextAction = "Invalid"
              /\ pool' = pool
              /\ queue' = queue
              /\ farmIP' = farmIP
        /\ \A w \in DOMAIN workloads :
              workloads[w].nextAction = "Invalid" =>
                  /\ workloads'[w].nextAction # "Deploy"
                  /\ \A i \in DOMAIN queue' :
                        queue'[i].id = w => \E j \in DOMAIN queue : queue[j].id = w
                  /\ \A a \in DOMAIN farmIP : farmIP'[a] = w => farmIP[a] = w
      ]_vars

\* C2 witness: a PublicIP workload was refused with 402 and is stored Invalid,
\* its address still free
C2_Witness ==
    /\ lastOp.op = "create" /\ lastOp.status = 402
    /\ workloads[lastOp.id].nextAction = "Invalid"
    /\ workloads[lastOp.id].workloadType = "PublicIP"
    /\ farmIP[workloads[lastOp.id].ipaddress] = 0
    /\ \A i \in DOMAIN queue : queue[i].id # lastOp.id

\* C3: an accepted PUT result for a new-style workload: OK adds the workload to
\* the pool's used capacity and leaves nextAction; Error removes it, sets
\* nextAction to Delete and sets a PublicIP workload's address free; any other
\* state changes neither the pool nor nextAction
C3_ResultAccounting ==
    [][ \A id \in DOMAIN workloads :
          (lastOp'.op = "result" /\ lastOp'.id = id /\ lastOp'.status = 201) =>
              LET w == workloads[id]
                  after == workloads'[id]
              IN  /\ after.result = lastOp'.arg
                  /\ lastOp'.arg = "OK" =>
                        /\ pool' = AddUsedCapacity(pool, w)
                        /\ after.nextAction = w.nextAction
                        /\ farmIP' = farmIP
                  /\ lastOp'.arg = "Error" =>
                        /\ pool' = RemoveUsedCapacity(pool, w)
                        /\ after.nextAction = "Delete"
                        /\ (w.workloadType = "PublicIP" /\ farmIP[w.ipaddress] = id)
                              => farmIP'[w.ipaddress] = 0
                  /\ lastOp'.arg \notin {"OK", "Error"} =>
                        /\ pool' = pool
                        /\ after.nextAction = w.nextAction
                        /\ farmIP' = farmIP
      ]_vars

\* C3 witness: an Error result was accepted for a PublicIP workload, which is
\* now in Delete with its address free and the pool's rate lowered
C3_Witness ==
    /\ lastOp.op = "result" /\ lastOp.arg = "Error" /\ lastOp.status = 201
    /\ lastOp.id \in DOMAIN workloads
    /\ workloads[lastOp.id].workloadType = "PublicIP"
    /\ workloads[lastOp.id].nextAction = "Delete"
    /\ farmIP[workloads[lastOp.id].ipaddress] = 0
    /\ pool[workloads[lastOp.id].poolId].active < 0

\* C4: a DELETE acknowledgement for a new-style workload removes it from the
\* pool's used capacity, stores the result Deleted and sets nextAction to Deleted;
\* when it is not acknowledged (RemoveUsedCapacity failed) neither the result nor
\* nextAction nor the pool is changed
C4_DeleteAck ==
    [][ \A id \in DOMAIN workloads :
          (lastOp'.op = "deleted" /\ lastOp'.id = id) =>
              /\ lastOp'.status = 200 =>
                    /\ pool' = RemoveUsedCapacity(pool, workloads[id])
                    /\ workloads'[id].result = "Deleted"
                    /\ workloads'[id].nextAction = "Deleted"
              /\ lastOp'.status # 200 =>
                    /\ workloads' = workloads
                    /\ pool' = pool
      ]_vars

\* C4 witness: the planner failed on a DELETE of a deployed workload, which is
\* still in Deploy with no Deleted result
C4_Witness ==
    /\ lastOp.op = "deleted" /\ lastOp.status = 500
    /\ lastOp.id \in DOMAIN workloads
    /\ workloads[lastOp.id].nextAction = "Deploy"
    /\ workloads[lastOp.id].result # "Deleted"

\* a change of nextAction the lifecycle allows
LifecycleStep(a, b) ==
    \/ a = b
    \/ <<a, b>> \in {<<"Create", "Sign">>, <<"Sign", "Pay">>, <<"Pay", "Deploy">>}
    \/ a \notin {"Delete", "Deleted", "Invalid"} /\ b \in {"Delete", "Invalid"}
    \/ a = "Delete" /\ b = "Deleted"

\* C5: every change of a workload's stored nextAction follows the lifecycle:
\* Deleted is entered only from Delete, and Deleted and Invalid are final
C5_Lifecycle ==
    [][ \A w \in DOMAIN workloads :
          LifecycleStep(workloads[w].nextAction, workloads'[w].nextAction) ]_vars

\* C6: a node that polls with each returned x-last-id as its next from receives
\* only ids larger than every id it received before
C6_StrictlyIncreasing ==
    [][ lastOp'.op = "poll" =>
          \A i \in DOMAIN lastOp'.page :
              lastOp'.page[i].id > seen[lastOp'.node] ]_vars

\* C7 as claimed: every workload a poll returns, whichever source it comes from,
\* is on the polled node, has id >= from and nextAction Deploy or Delete
C7_ReturnedForNodeFromCursor ==
    Polled =>
        \A i \in DOMAIN lastOp.page :
            /\ lastOp.page[i].nodeId = lastOp.node
            /\ lastOp.page[i].id >= lastOp.from
            /\ lastOp.page[i].nextAction \in {"Deploy", "Delete"}

\* C7 amended: every workload a poll returns is on the polled node and has
\* nextAction Deploy or Delete; those read from the legacy reservations and the
\* workload documents have id >= from, those read from the node's queue may
\* have older ids
C7_ReturnedForNode ==
    Polled =>
        \A i \in DOMAIN lastOp.page :
            LET e == lastOp.page[i]
            IN  /\ e.nodeId = lastOp.node
                /\ e.nextAction \in {"Deploy", "Delete"}
                /\ e.n > 0
                /\ e.src = "workload" =>
                      /\ e.id \in DOMAIN workloads
                      /\ workloads[e.id].nodeId = lastOp.node
                      /\ e.id >= lastOp.from
                /\ e.src = "reservation" =>
                      /\ e.id \in DOMAIN reservations
                      /\ e.n = Workloads(reservations[e.id], lastOp.node)
                      /\ e.id >= lastOp.from
                /\ e.src = "queue" =>
                      e.id \in DOMAIN workloads \cup DOMAIN reservations

\* C7 witness: a poll answered from the queue with a deployed workload of the
\* node whose id is below from
C7_Witness ==
    /\ Polled
    /\ \E i \in DOMAIN lastOp.page :
          /\ lastOp.page[i].src = "queue"
          /\ lastOp.page[i].id < lastOp.from
          /\ lastOp.page[i].id \in DOMAIN workloads
          /\ workloads[lastOp.page[i].id].nodeId = lastOp.node
          /\ lastOp.page[i].nextAction = "Deploy"

\* C8: a poll returns at most 200 workloads, by ascending id, also when legacy
\* reservations expand to several workloads and mix with workload documents
C8_PageBounded ==
    Polled => SumLen(lastOp.page) <= maxPageSize /\ Ascending(lastOp.page)

\* C9 as claimed: x-last-id is the largest id returned, and the largest known
\* workload id when nothing is returned
C9_LastIdIsMaxReturned ==
    Polled =>
        lastOp.xLastId =
            IF lastOp.page = <<>>
            THEN Max({0} \cup DOMAIN reservations \cup DOMAIN workloads)
            ELSE Max(PageIds(lastOp.page))

\* C9 amended: x-last-id is the largest id returned when the page is read from
\* the reservations and workload documents; the larger of from and the largest
\* id returned when the page is read from the queue; and the largest known
\* workload id when nothing is returned
C9_LastIdNeverBelowFrom ==
    Polled =>
        lastOp.xLastId =
            IF lastOp.page = <<>>
            THEN Max({0} \cup DOMAIN reservations \cup DOMAIN workloads)
            ELSE IF \E i \in DOMAIN lastOp.page : lastOp.page[i].src = "queue"
            THEN Max({lastOp.from} \cup PageIds(lastOp.page))
            ELSE Max(PageIds(lastOp.page))

\* C9 witness: a page read from the queue whose ids are all below from, the
\* header keeping from
C9_Witness ==
    /\ Polled /\ lastOp.page # <<>>
    /\ \A i \in DOMAIN lastOp.page : lastOp.page[i].src = "queue"
    /\ Max(PageIds(lastOp.page)) < lastOp.from
    /\ lastOp.xLastId = lastOp.from

\* C10: the poll of N1 that follows its PUT of an Error result for a workload
\* returns that workload exactly once, with nextAction Delete, wherever the
\* node's cursor is
C10_ErrorThenPollReturnsDelete ==
    [][ ( /\ lastOp.op = "result" /\ lastOp.arg = "Error" /\ lastOp.status = 201
          /\ lastOp.id \in DOMAIN workloads
          /\ workloads[lastOp.id].nodeId = "N1"
          /\ lastOp'.op = "poll" /\ lastOp'.node = "N1" )
        => /\ workloads[lastOp.id].nextAction = "Delete"
           /\ Cardinality({ i \in DOMAIN lastOp'.page :
                                lastOp'.page[i].id = lastOp.id }) = 1
           /\ \A i \in DOMAIN lastOp'.page :
                 lastOp'.page[i].id = lastOp.id =>
                     lastOp'.page[i].nextAction = "Delete" ]_vars

\* the request logged is a node report the service accepted
Reported(op) ==
    \/ op.op = "result" /\ op.status = 201
    \/ op.op = "deleted" /\ op.status = 200

\* C11: after an accepted PUT result or DELETE acknowledgement for id i the
\* queue holds no entry for i, and a poll that follows and is answered from the
\* queue does not return i
C11_ReportPopsQueue ==
    [][ /\ Reported(lastOp') =>
              \A i \in DOMAIN queue' : queue'[i].id # lastOp'.id
        /\ (Reported(lastOp) /\ lastOp'.op = "poll") =>
              \A i \in DOMAIN lastOp'.page :
                  lastOp'.page[i].src = "queue" => lastOp'.page[i].id # lastOp.id
      ]_vars

\* C11 witness: a poll was answered from the queue while a workload of the node
\* that was queued at its creation and has since been reported on is left out
C11_Witness ==
    /\ Polled
    /\ \E i \in DOMAIN lastOp.page : lastOp.page[i].src = "queue"
    /\ \E w \in DOMAIN workloads :
          /\ workloads[w].nodeId = lastOp.node
          /\ workloads[w].result \in {"OK", "Deleted"}
          /\ w \notin PageIds(lastOp.page)

\* no tid occurs twice in a sequence of signatures
OncePerTid(sigs) ==
    \A i, j \in DOMAIN sigs : sigs[i] = sigs[j] => i = j

\* C12: whatever the interleaving of concurrent sign requests, signaturesProvision
\* and signaturesDelete each hold at most one signature per tid
C12_SingleSignaturePerTid ==
    \A r \in DOMAIN reservations :
        /\ OncePerTid(reservations[r].signaturesProvision)
        /\ OncePerTid(reservations[r].signaturesDelete)

\* C14: a handler that finishes a PUT result changes the stored nextAction only
\* if the stored value is still the one it read (compare-and-set)
C14_WritesCompareAndSet ==
    [][ \A c \in Clients :
          (inflight[c].op = "result" /\ inflight'[c].op = "idle") =>
              LET id == inflight[c].id
              IN  workloads'[id].nextAction # workloads[id].nextAction =>
                      workloads[id].nextAction = inflight[c].w.nextAction ]_vars

\* C20: at most one workload with nextAction = Deploy references a given
\* PublicIP workload, under any interleaving of concurrent submissions
C20_OneDeployPerPublicIP ==
    \A p \in DOMAIN workloads :
        Cardinality({ w \in DOMAIN workloads :
                        /\ workloads[w].nextAction = "Deploy"
                        /\ workloads[w].publicIP = p }) <= 1

\* C13: the delete threshold gates the move into Delete for a new-style
\* workload: a POST /reservations/{id}/sign/delete whose signature completes the
\* workload's delete signing request leaves the stored nextAction at Delete and
\* the workload in the queue of its node, and one that does not complete it does
\* not move the workload to Delete.
C13_DeleteThresholdGates ==
    [][ \A rid \in DOMAIN workloads, tid \in Tids :
          (signDelete(rid, tid, TRUE) /\ workloads[rid].nextAction = "Deploy") =>
              IF checkSignatures(Append(workloads[rid].signaturesDelete, tid),
                                 workloads[rid].signingRequestDelete)
              THEN /\ workloads'[rid].nextAction = "Delete"
                   /\ \E i \in DOMAIN queue' :
                          /\ queue'[i].id = rid
                          /\ queue'[i].nextAction = "Delete"
              ELSE workloads'[rid].nextAction # "Delete" ]_vars

\* the customer whose workload holds address a (0: the address is free)
Holder(a) == IF farmIP[a] = 0 THEN 0 ELSE workloads[farmIP[a]].customerTid

\* a POST of a PublicIP workload got as far as the allocation of its address
Claimed(op, wls) ==
    /\ op.op = "create"
    /\ op.id \in DOMAIN wls
    /\ wls[op.id].workloadType = "PublicIP"
    /\ op.status # 402

\* C15: a PublicIP workload for address A succeeds iff the farm lists A and A is
\* free or held by a workload of the same customer; if the holder is of another
\* customer the answer is 409, and if the farm does not list A it is 404.
C15_AllocationByCustomer ==
    [][ Claimed(lastOp', workloads') =>
          LET w == workloads'[lastOp'.id]
              A == w.ipaddress
          IN  IF A \notin DOMAIN farmIP THEN lastOp'.status = 404
              ELSE IF Holder(A) \in {0, w.customerTid} THEN lastOp'.status = 201
              ELSE lastOp'.status = 409 ]_vars

\* C16: a claim by customer B of an address held by a workload of customer A is
\* answered 409 and changes nothing: no workload document is stored, the holder
\* keeps its nextAction, nothing is queued and the farm table is as it was.
C16_ConflictChangesNothing ==
    [][ \A c \in IPSubmitters, s \in IPSubmissions :
          ( /\ claimIP(c, s)
            /\ s.ipaddress \in DOMAIN farmIP
            /\ Holder(s.ipaddress) \notin {0, c.cust} ) =>
                /\ lastOp'.status = 409
                /\ UNCHANGED <<reservations, workloads, queue, farmIP>> ]_vars

\* C17: when a claim takes over an address held by workload W1, the stored
\* nextAction of W1 in the workloads collection becomes Delete and the farm row
\* moves from W1 to the new workload.
C17_SwapDeletesHolder ==
    [][ ( /\ Claimed(lastOp', workloads')
          /\ lastOp'.status = 201
          /\ farmIP[workloads'[lastOp'.id].ipaddress] # 0 ) =>
              LET A == workloads'[lastOp'.id].ipaddress
              IN  /\ workloads'[farmIP[A]].nextAction = "Delete"
                  /\ farmIP'[A] = lastOp'.id ]_vars

\* C18: for every address of the farm at most one PublicIP workload with
\* nextAction = Deploy references it.
C18_OneDeployPerAddress ==
    \A a \in FarmAddresses :
        Cardinality({ w \in DOMAIN workloads :
                        /\ workloads[w].workloadType = "PublicIP"
                        /\ workloads[w].ipaddress = a
                        /\ workloads[w].nextAction = "Deploy" }) <= 1

C21_DeployedInOwnPool ==
    [][ /\ \A w \in DOMAIN workloads' :
              workloads'[w].nextAction = "Deploy" =>
                  /\ workloads'[w].poolId \in DOMAIN pool'
                  /\ workloads'[w].nodeId \in Pools[workloads'[w].poolId].nodes
                  /\ workloads'[w].customerTid = Pools[workloads'[w].poolId].owner
        /\ \A c \in AdmitSubmitters, s \in AdmitSubmissions :
              claimIP(c, s) =>
                  IF c.poolId \notin DOMAIN pool
                  THEN lastOp'.status = 404 /\ workloads' = workloads
                  ELSE IF ~(/\ s.nodeId \in Pools[c.poolId].nodes
                            /\ c.cust = Pools[c.poolId].owner)
                  THEN lastOp'.status = 403 /\ workloads' = workloads
                  ELSE lastOp'.status \notin {403, 404} ]_vars

\* C21 witness: a submission was refused by the planner while a workload
\* admitted to its pool is in Deploy
C21_Witness ==
    /\ lastOp.op = "create"
    /\ lastOp.status = 403
    /\ \E w \in DOMAIN workloads : workloads[w].nextAction = "Deploy"

\* C25: a Kubernetes workload of size -1 is stored with customSize {CRU, MRU} =
\* the node's total minus reserved resources and SRU = 50; when that residual
\* has CRU = 0 or MRU <= 0, also when more is reserved than the node has, the
\* request is answered 409 and nothing is stored; for any other size the stored
\* customSize is zero whatever the client sent.
C25_CustomSizeFromResidual ==
    [][ \A c \in IPSubmitters, s \in K8SSubmissions, node \in NodeResources :
          (createK8S(c, s, node) /\ createRejected(c.reqUser,
               NewWorkload(c.cust, s.nodeId, c.poolId, s.workloadType, s.ipaddress,
                           s.publicIP, s.req), TRUE) = 0) =>
              LET cru == node.total.cru - node.reserved.cru
                  mru == node.total.mru - node.reserved.mru
              IN  IF s.size = -1 /\ (cru <= 0 \/ mru <= 0)
                  THEN lastOp'.status = 409 /\ workloads' = workloads
                  ELSE /\ lastOp'.id \in DOMAIN workloads'
                       /\ workloads'[lastOp'.id].customSize =
                              IF s.size = -1
                              THEN [CRU |-> cru, MRU |-> mru, SRU |-> CustomSRU]
                              ELSE ZeroSize ]_vars

\* C26: a workload comes into the store with version = 2, the id the server
\* assigned, no provision or delete signature, no result and nextAction =
\* Create, whatever the body said; its version and id stay as stored.
C26_StoredAsCreated ==
    [][ /\ \A id \in DOMAIN workloads' \ DOMAIN workloads :
              /\ id = nextId
              /\ workloads'[id].id = id
              /\ workloads'[id].version = lastestWorkloadVersion
              /\ workloads'[id].signaturesProvision = <<>>
              /\ workloads'[id].signaturesDelete = <<>>
              /\ workloads'[id].result = ""
              /\ workloads'[id].nextAction = "Create"
        /\ \A id \in DOMAIN workloads :
              /\ id \in DOMAIN workloads'
              /\ workloads'[id].id = id
              /\ workloads'[id].version = lastestWorkloadVersion ]_vars

\* C26 witness: two workloads are stored and one of them was deployed
C26_Witness ==
    /\ Cardinality(DOMAIN workloads) = 2
    /\ \E id \in DOMAIN workloads : workloads[id].nextAction = "Deploy"
    /\ \E id \in DOMAIN workloads : workloads[id].nextAction = "Create"

\* no legacy reservation and no workload has the id
UnknownId(rid) == rid \notin DOMAIN reservations \cup DOMAIN workloads

\* C27: on every endpoint that takes an id, an id that no reservation and no
\* workload has is answered 404 and changes nothing in the store: GET
\* /reservations/{id}, sign/provision, sign/delete, and GET, PUT and DELETE
\* /reservations/workloads/{gwid}.
C27_UnknownIdNotFound ==
    [][ \A rid \in 1 .. MaxDocs :
          UnknownId(rid) =>
            /\ get(rid) = 404
            /\ \A sub \in 1 .. MaxSub : workloadGet(rid, sub) = 404
            /\ ( \/ \E tid \in Tids : signProvision(rid, tid, TRUE)
                 \/ \E tid \in Tids : signDelete(rid, tid, TRUE)
                 \/ \E sub \in 1 .. MaxSub, n \in Nodes, state \in ResultStates,
                       capOk \in BOOLEAN :
                         workloadPutResult(rid, sub, n, state, TRUE, capOk)
                 \/ \E sub \in 1 .. MaxSub, n \in Nodes, capOk \in BOOLEAN :
                         workloadPutDeleted(rid, sub, n, capOk) ) =>
                   /\ lastOp'.status = 404
                   /\ UNCHANGED <<reservations, workloads, queue, pool, farmIP>> ]_vars

\* the status of a request the service refused
Refused == 400 .. 499

\* C22: POST /reservations and POST /reservations/pools each reject, without
\* persisting anything, a request whose body names a customer other than the
\* user of the HTTP signature, and a body whose customer signature does not
\* verify.
C22_BodyCustomerIsSigner ==
    [][ /\ \A req \in PoolRequests :
              setupPool(req) /\ (req.customerTid # req.reqUser \/ ~req.sigValid)
                  => /\ lastOp'.status \in Refused
                     /\ UNCHANGED <<capacityReservations, capacityPools>>
        /\ \A reqUser \in Tids, cust \in Tids, sigValid \in BOOLEAN :
              create(reqUser, cust, sigValid, "N1", IF cust = 7 THEN 1 ELSE 3,
                     "Volume", "", 0, [signers |-> {}, quorumMin |-> 0])
                  /\ (cust # reqUser \/ ~sigValid)
                  => /\ lastOp'.status \in Refused
                     /\ UNCHANGED <<reservations, workloads, queue>> ]_vars

\* the nodes of a list are distinct and stand in one farm
OneFarmNoRepeat(nodeIds) ==
    \A i, j \in DOMAIN nodeIds :
        /\ NodeFarm[nodeIds[i]] = NodeFarm[nodeIds[j]]
        /\ i # j => nodeIds[i] # nodeIds[j]

\* C23: after any sequence of POST /reservations/pools, creations and
\* extensions, the nodes of every pool stand in one farm and no pool lists a
\* node twice; a request with a node id twice is answered 409 and one whose
\* nodes stand in more than one farm 400, and neither stores anything.
C23_PoolInOneFarm ==
    /\ [](\A p \in DOMAIN capacityPools : OneFarmNoRepeat(capacityPools[p].nodeIds))
    /\ [][\A req \in PoolRequests :
            ~OneFarmNoRepeat(req.nodeIds) /\ setupPool(req)
                => /\ lastOp'.status =
                        IF \E i, j \in DOMAIN req.nodeIds :
                               i # j /\ req.nodeIds[i] = req.nodeIds[j]
                        THEN 409 ELSE 400
                   /\ UNCHANGED <<capacityReservations, capacityPools>>]_vars

\* a pool was created, pool 2 was extended by a node, and a request naming a
\* node twice has just been refused
C23_Witness ==
    /\ \E p \in DOMAIN capacityPools : p \notin DOMAIN PoolDocs
    /\ Len(capacityPools[2].nodeIds) > Len(PoolDocs[2].nodeIds)
    /\ lastOp.op = "setupPool"
    /\ lastOp.status = 409

\* C24: when at least one node of the request is not free to use, whatever
\* the currency list (FreeTFT more than once, at any position), setupPool does
\* not fail and hands to Reserve the list without FreeTFT, the other
\* currencies kept in their order.
C24_FreeTFTFilteredOut ==
    [][\A req \in CurrencyRequests :
          /\ OneFarmNoRepeat(req.nodeIds)
          /\ ~(Range(req.nodeIds) \subseteq FreeToUse)
          /\ setupPool(req)
          => /\ lastOp'.status # 0
             /\ lastOp'.id # 0
                   => lastOp'.arg = SelectSeq(req.currencies, LAMBDA c : c # freeTFT)]_vars

\* C28: Volume.GetSigningRequestDelete terminates and returns the stored
\* SigningRequestDelete: a call never ends in a stack overflow, and a call
\* that has returned has returned the field of the volume.
C28_GetterReturnsField ==
    /\ getter.status # "overflow"
    /\ getter.status = "returned" => getter.ret = getter.v.SigningRequestDelete

\* C29: on SIGINT the HTTP server shuts down gracefully within 5 seconds and
\* the background loops observe a process-wide cancellation signal, so that
\* in the end no loop takes another step: a request in flight is cut off only
\* once the five seconds are over, and when the process ends every loop has
\* returned on the cancellation of its context.
C29_ShutdownCancelsLoops ==
    process.main = "exited"
        => /\ process.aborted > 0 => process.elapsed = ShutdownTimeout
           /\ \A l \in Loops : process.loop[l].state = "cancelled"

\* C30: CloudUnitsFromResourceUnits returns CU = min(CRU x 2, MRU) / 4 for
\* every RSU: the cases of the test get the cu the test expects ((1, 1) ->
\* 0.25, (2, 4) -> 1, (4, 8) -> 2, (4, 32) and (4, 64) -> 2), and memory beyond
\* twice the cores adds nothing.
C30_CloudUnits ==
    units.done
        => /\ units.want # -1 => units.cu = units.want
           /\ 4 * units.cu =
                 1000 * (IF units.rsu.cru * 2 <= units.rsu.mru
                         THEN units.rsu.cru * 2 ELSE units.rsu.mru)
           /\ units.rsu.mru >= 2 * units.rsu.cru => units.cu = 500 * units.rsu.cru

\* the case (4, 64) of the test has run: memory far beyond twice the cores
C30_Witness ==
    /\ units.done
    /\ units.rsu = [cru |-> 4, mru |-> 64]
    /\ units.want = 2000
    /\ units.cu = 2000

C33_CapacityBalanced ==
    \A p \in DOMAIN pool :
        pool[p].active \in
            0 .. Cardinality({ id \in DOMAIN workloads :
                                  /\ workloads[id].poolId = p
                                  /\ workloads[id].nextAction # "Deleted" }) * Units(0)

\* the document rid-sub is assigned to a node other than n
OfOtherNode(rid, sub, n) ==
    \/ rid \in DOMAIN reservations /\ sub <= Workloads(reservations[rid], "")
           /\ SubNode(reservations[rid], sub) # n
    \/ rid \notin DOMAIN reservations /\ rid \in DOMAIN workloads
           /\ workloads[rid].nodeId # n

\* C34: a result or a teardown acknowledgement changes a workload only when it
\* comes from the node the workload is assigned to: sent under the node id of
\* another node it is refused and leaves results, nextAction, queue, pool
\* accounting and farm addresses as they were, for new-style workloads as for
\* legacy reservations.
C34_OnlyOwnNodeReports ==
    [][ \A rid \in 1 .. MaxDocs, sub \in 1 .. MaxSub, n \in Nodes, capOk \in BOOLEAN :
          ( /\ OfOtherNode(rid, sub, n)
            /\ \/ \E state \in ResultStates :
                     workloadPutResult(rid, sub, n, state, TRUE, capOk)
               \/ workloadPutDeleted(rid, sub, n, capOk) )
          => /\ lastOp'.status \in Refused
             /\ UNCHANGED <<reservations, workloads, queue, pool, farmIP>> ]_vars

\* the last request was a poll of node n and its response holds the id
Returned(n, id) ==
    /\ lastOp.op = "poll"
    /\ lastOp.node = n
    /\ id \in PageIds(lastOp.page)

\* the document id has workloads on node n that are to be deployed or deleted
Due(n, id) ==
    \/ /\ id \in DOMAIN reservations
       /\ Workloads(reservations[id], n) > 0
       /\ Dispatchable(PipelineNext(reservations[id]))
    \/ /\ id \in DOMAIN workloads
       /\ workloads[id].nodeId = n
       /\ Dispatchable(PipelineNext(workloads[id]))

\* C35: pagination skips nothing: when a node keeps polling with from = the
\* previous x-last-id, every legacy reservation and every new-style workload
\* assigned to it that is in Deploy or Delete at the time of one of its polls
\* is returned in some response.
C35_NothingSkipped ==
    \A n \in Pollers, id \in 1 .. MaxDocs :
        (<>(lastOp.op = "poll" /\ lastOp.node = n /\ Due(n, id))) => <>Returned(n, id)

\* a copy of the document id is parked in the queue of node n
Parked(n, id) == \E i \in DOMAIN queue : queue[i].id = id /\ queue[i].nodeId = n

\* the last request parked the document id in the queue of node n
JustParked(n, id) ==
    /\ lastOp.op \in {"create", "signProvision", "signDelete"}
    /\ lastOp.id = id
    /\ lastOp.status = 201
    /\ Parked(n, id)

\* C36: every workload parked in the queue of a node is eventually returned by
\* a poll of that node (or leaves the queue on a report), the node polling
\* with from = the previous x-last-id and acknowledging what it receives: the
\* queue fallback is reached even while the node has a document to deploy
\* whose id equals its cursor.
C36_QueueServed ==
    \A n \in Pollers, id \in 1 .. MaxDocs :
        JustParked(n, id) ~> (Returned(n, id) \/ ~Parked(n, id))

\* the document a provision signature for id is pushed to
SignTarget(id) == IF id \in DOMAIN reservations THEN reservations[id] ELSE workloads[id]

\* the status the claim gives a provision signature of tid for the document id
\* (201: the signature is appended)
ProvisionStatus(id, tid, sigValid) ==
    IF id \notin DOMAIN reservations \cup DOMAIN workloads THEN {404}
    ELSE IF PipelineNext(SignTarget(id)) # "Sign" THEN {401}
    ELSE IF tid \notin SignTarget(id).signingRequestProvision.signers THEN {401}
    ELSE IF tid \in SeqToSet(SignTarget(id).signaturesProvision) THEN {400}
    ELSE IF tid \notin Tids THEN {404}
    ELSE IF ~sigValid THEN Refused
    ELSE {201}

\* C37: a provision signature is appended only if the document is in Sign, the
\* tid is a required signer that has not signed yet and is a registered user,
\* and the signature verifies; every other request is rejected (401 when the
\* document is not in Sign or the tid is not a required signer, 400 when the
\* tid already signed, 404 when the user is unknown) and leaves the stored
\* signatures and nextAction as they were.
C37_ProvisionSignatureChecked ==
    [][ \A rid \in 1 .. MaxDocs + 1, tid \in Signatories, sigValid \in BOOLEAN :
          signProvision(rid, tid, sigValid)
          => /\ lastOp'.status \in ProvisionStatus(rid, tid, sigValid)
             /\ IF lastOp'.status # 201
                THEN UNCHANGED <<reservations, workloads, queue>>
                ELSE IF rid \in DOMAIN reservations
                THEN /\ reservations' = PushSignature(reservations, rid, "provision", tid)
                     /\ UNCHANGED workloads
                ELSE /\ workloads' = PushSignature(workloads, rid, "provision", tid)
                     /\ UNCHANGED reservations ]_vars

\* the unregistered signer was turned away after 7 and 9 had signed, then a
\* second signature of 9 was refused
C37_Witness ==
    /\ lastOp.op = "signProvision"
    /\ lastOp.status = 400
    /\ Len(reservations) = 1
    /\ SeqToSet(reservations[1].signaturesProvision) = {7, 9}
    /\ PipelineNext(reservations[1]) = "Sign"

\* C39: the signature challenge is injective on the variant payload: two
\* GatewayReverseProxy workloads with one header and different (Domain, Secret),
\* or two GatewayProxy workloads with different (Domain, Addr, Port, PortTLS),
\* never have the same challenge bytes.
C39_ChallengeInjective ==
    (units.done /\ units.p # units.q) => units.cp # units.cq

\* C38: a POST /reservations/pools that ends with an error response leaves
\* the store as it was: no capacity reservation document of the request stays
\* persisted when Reserve rejects the request or fails.
C38_FailedPoolRequestStoresNothing ==
    [][ \A req \in PoolRequests :
          (setupPool(req) /\ lastOp'.status >= 400)
          => UNCHANGED <<capacityReservations, capacityPools>> ]_vars

====
